---- MODULE Spec2Model ----
(***************************************************************************)
(* Stabilizer-chain construction of the stabchain crate: the IFT builder,  *)
(* the randomized Schreier-Sims builder, the random base-change builder    *)
(* and the product-replacement generator RandPerm, over permutations of a  *)
(* bounded point set.                                                      *)
(***************************************************************************)
EXTENDS Integers, Sequences, FiniteSets, TLC

\* Number of points the permutations act on (points are 0 .. NPoints-1).
NPoints == 4
\* Longest generator list handed to a builder.
MaxGens == 2

Points == 0 .. (NPoints - 1)

(***************************************************************************)
(* Permutations: bijections of Points.  multiply(a, b) applies a first and *)
(* then b (apply_permutation_word folds a word left to right).             *)
(***************************************************************************)
Perms == {f \in [Points -> Points] : \A y \in Points : \E x \in Points : f[x] = y}

Id == [x \in Points |-> x]

Apply(p, x) == p[x]

Mul(a, b) == [x \in Points |-> b[a[x]]]

Inv(p) == [y \in Points |-> CHOOSE x \in Points : p[x] = y]

IsId(p) == \A x \in Points : p[x] = x

RECURSIVE PowNat(_, _)
PowNat(p, k) == IF k = 0 THEN Id ELSE Mul(PowNat(p, k - 1), p)

Pow(p, e) == IF e >= 0 THEN PowNat(p, e) ELSE PowNat(Inv(p), 0 - e)

Moved(p) == {x \in Points : p[x] # x}

SetMax(S) == CHOOSE x \in S : \A y \in S : y <= x
SetMin(S) == CHOOSE x \in S : \A y \in S : x <= y

\* Option values of the code (Some / None).
None == [some |-> FALSE]
Some(v) == [some |-> TRUE, val |-> v]

\* The group generated by a set of permutations (closure under right
\* multiplication by the generators; the set is finite).
RECURSIVE Closure(_, _)
Closure(S, gs) ==
    LET T == S \cup {Mul(a, g) : a \in S, g \in gs}
    IN  IF T = S THEN S ELSE Closure(T, gs)

Generated(gs) == Closure({Id}, gs)

SeqSet(s) == {s[i] : i \in 1 .. Len(s)}

VARIABLES
    group,         \* the generator list handed to the builder (Group::generators)
    gen_idx,       \* IFT: number of generators set_generators has absorbed so far
    chain,         \* the builder's chain: a sequence of StabchainRecords
    current_pos,   \* the builder's current_pos (0-based level)
    selector,      \* the base selector the builder was created with
    hashOrder,     \* iteration order of the deterministic hash containers
    pc,            \* control position: which call or loop runs next
    n,             \* randomized builder: n
    base,          \* randomized builder: base (Vec of base points)
    up_to_date,    \* randomized builder: up_to_date (1-indexed)
    constants,     \* randomized builder: the tuning Constants
    snap,          \* the chain as it was when the running SGC/SGT pass drew its products
    subproducts,   \* subproduct_iter of the running pass (a sequence of words)
    cand_idx,      \* index of the next product of the running pass
    g_word,        \* the coset representative word the current products start with
    all_discarded, \* sgc: all_discarded
    b_star,        \* sgc: b_star
    stack,         \* active calls of sgc and sgt, innermost last
    old_chain,     \* base change: the Stabchain handed to set_base
    new_base,      \* base change: the Base handed to set_base
    debug_assertions, \* whether the build keeps debug_assert! (cfg(debug_assertions))
    rand_perm,     \* RandPerm: size, gen_elements, accum
    initial_runs,  \* RandPerm::new: warm-up calls still to make
    returned,      \* RandPerm: what the last call of random_permutation returned
    cube,          \* Cube: the struct Cube::new returned (cube, orbit, depth)
    cube_base,     \* Cube::new: its argument base
    orbit_size,    \* Cube::new: its argument orbit_size
    calls,         \* IFT: the active calls of extend_inner with their locals, innermost last
    draws          \* base change: the permutations rand_perm.random_permutation() can return

builderVars == <<group, gen_idx, chain, current_pos, selector, hashOrder>>
cubeVars == <<cube, cube_base, orbit_size>>
otherVars == <<old_chain, new_base, debug_assertions, rand_perm, initial_runs, returned, cubeVars, calls, draws>>
randomVars == <<n, base, up_to_date, constants, snap, subproducts, cand_idx, g_word,
                all_discarded, b_star, stack, otherVars>>

vars == <<group, gen_idx, chain, current_pos, selector, hashOrder, pc,
          n, base, up_to_date, constants, snap, subproducts, cand_idx, g_word,
          all_discarded, b_star, stack,
          old_chain, new_base, debug_assertions, rand_perm, initial_runs, returned,
          cube, cube_base, orbit_size, calls, draws>>

(***************************************************************************)
(* Hash containers.  DetHashMap iterates in an order fixed by the hasher,  *)
(* not by the program; the model fixes one order per run, ascending or     *)
(* descending in the points.                                               *)
(***************************************************************************)
HashOrders == {"asc", "desc"}

RECURSIVE SortAsc(_)
SortAsc(S) == IF S = {} THEN <<>> ELSE LET m == SetMin(S) IN <<m>> \o SortAsc(S \ {m})

RECURSIVE SortDesc(_)
SortDesc(S) == IF S = {} THEN <<>> ELSE LET m == SetMax(S) IN <<m>> \o SortDesc(S \ {m})

\* transversal.keys().cloned().collect(): the keys in iteration order.
Keys(T) == IF hashOrder = "asc" THEN SortAsc(DOMAIN T) ELSE SortDesc(DOMAIN T)

EmptyMap == [x \in {} |-> Id]

\* HashMap::insert of one entry.
Insert(T, k, v) == [x \in (DOMAIN T) \cup {k} |-> IF x = k THEN v ELSE T[x]]

\* HashMap::extend: the entries of N are written over those of T.
Extend(T, N) == [x \in (DOMAIN T) \cup (DOMAIN N) |-> IF x \in DOMAIN N THEN N[x] ELSE T[x]]

(***************************************************************************)
(* Base selectors, records and the whole-chain operations.                 *)
(***************************************************************************)
Selectors == {"lmp", "fmp"}

\* BaseSelector::moved_point: LmpSelector gives the largest moved point,
\* FmpSelector the least.
MovedPoint(sel, p) == IF sel = "lmp" THEN SetMax(Moved(p)) ELSE SetMin(Moved(p))

\* StabchainRecord::new(base, gens, transversal).
Record(b, gs, T) == [base |-> b, gens |-> gs, transversal |-> T]

\* representative_raw: walk the stored entries from the point back to the
\* base, composing them, and invert; None when the point is not a key (or
\* the walk leaves the map).
RECURSIVE RepWalk(_, _, _, _, _)
RepWalk(T, b, pt, acc, fuel) ==
    IF pt = b THEN Some(Inv(acc))
    ELSE IF pt \notin DOMAIN T \/ fuel = 0 THEN None
    ELSE RepWalk(T, b, Apply(T[pt], pt), Mul(acc, T[pt]), fuel - 1)

RepresentativeRaw(T, b, pt) ==
    IF pt \notin DOMAIN T THEN None ELSE RepWalk(T, b, pt, Id, NPoints)

\* Sift g through the records pos+1 .. Len(c) of c (0-based level pos
\* onward): [level |-> levels passed, residue |-> what is left].
RECURSIVE Sift(_, _, _, _)
Sift(c, pos, g, k) ==
    IF pos + k >= Len(c) THEN [level |-> k, residue |-> g]
    ELSE LET r == c[pos + k + 1]
             img == Apply(g, r.base)
             rep == RepresentativeRaw(r.transversal, r.base, img)
         IN  IF ~rep.some THEN [level |-> k, residue |-> g]
             ELSE Sift(c, pos, Mul(g, Inv(rep.val)), k + 1)

\* element_testing::is_in_group over the records from level pos on.
IsInGroup(c, pos, p) ==
    LET s == Sift(c, pos, p, 0)
    IN  pos + s.level = Len(c) /\ IsId(s.residue)

\* order(chain.iter()): the product of the transversal sizes.
RECURSIVE OrderFrom(_, _)
OrderFrom(c, i) ==
    IF i > Len(c) THEN 1 ELSE Cardinality(DOMAIN c[i].transversal) * OrderFrom(c, i + 1)

Order(c) == OrderFrom(c, 1)

(***************************************************************************)
(* IFT builder (StabchainBuilderIft).  extend_inner is recursive through   *)
(* extend_lower_level; every call works on the records from its own level  *)
(* downward, so a call is a function from (chain, level, p) to the chain   *)
(* it leaves behind.  Work-lists are VecDeques used as stacks (pop_back,   *)
(* push_back): a sequence whose last element is taken next.                *)
(***************************************************************************)
RECURSIVE ExtendInner(_, _, _, _)
RECURSIVE FirstLoop(_, _, _, _, _, _, _)
RECURSIVE SecondLoop(_, _, _, _, _, _)
RECURSIVE GeneratorLoop(_, _, _, _, _, _, _, _, _)

\* bottom_of_the_chain
BottomOfTheChain(c, pos) == pos = Len(c)

RECURSIVE BottomWalk(_, _, _, _, _)
\* BottomWalk that does not store the last point of the cycle.
BottomWalkDropsLastPoint(p, moved_point, next_orbit_point, T, representative) ==
    IF next_orbit_point = moved_point
    THEN [transversal |-> T, representative |-> representative]
    ELSE BottomWalk(p, moved_point, Apply(p, next_orbit_point),
                    IF Apply(p, next_orbit_point) = moved_point THEN T
                    ELSE Insert(T, next_orbit_point, Inv(p)),
                    Mul(representative, p))

\* BottomWalk that stores p where the code stores p.inv().
BottomWalkStoresP(p, moved_point, next_orbit_point, T, representative) ==
    IF next_orbit_point = moved_point
    THEN [transversal |-> T, representative |-> representative]
    ELSE BottomWalk(p, moved_point, Apply(p, next_orbit_point),
                    Insert(T, next_orbit_point, p), Mul(representative, p))

\* The while loop of the bottom case: walks the cycle of p through the
\* moved point, storing p.inv() for every point met and multiplying the
\* representative by p once per point.
BottomWalk(p, moved_point, next_orbit_point, T, representative) ==
    IF next_orbit_point = moved_point
    THEN [transversal |-> T, representative |-> representative]
    ELSE BottomWalk(p, moved_point, Apply(p, next_orbit_point),
                    Insert(T, next_orbit_point, Inv(p)), Mul(representative, p))

\* extend_lower_level that leaves the lower levels as they are.
ExtendLowerLevelSkipped(sel, c, pos, p) == c

\* extend_lower_level(p): extend_inner one level down.
ExtendLowerLevel(sel, c, pos, p) == ExtendInner(sel, c, pos + 1, p)

\* Mutant of FirstLoop: a known image hands nothing to the next level.
FirstLoopNoSchreier(sel, c, pos, p, record, to_check, new_transversal) ==
    IF to_check = <<>> THEN [chain |-> c, new_transversal |-> new_transversal]
    ELSE
      LET orbit_element == to_check[Len(to_check)]
          rest == SubSeq(to_check, 1, Len(to_check) - 1)
          new_image == Apply(p, orbit_element)
      IN  IF new_image \in DOMAIN record.transversal \/ new_image \in DOMAIN new_transversal
          THEN FirstLoop(sel, c, pos, p, record, rest, new_transversal)
          ELSE FirstLoop(sel, c, pos, p, record, rest,
                         Insert(new_transversal, new_image, Inv(p)))

\* First work-list of extend_inner: every point already in the transversal
\* is mapped by p; a known image gives a Schreier generator for the next
\* level, a new image is staged in new_transversal.
FirstLoop(sel, c, pos, p, record, to_check, new_transversal) ==
    IF to_check = <<>> THEN [chain |-> c, new_transversal |-> new_transversal]
    ELSE
      LET orbit_element == to_check[Len(to_check)]
          rest == SubSeq(to_check, 1, Len(to_check) - 1)
          orbit_element_repr ==
              RepresentativeRaw(record.transversal, record.base, orbit_element).val
          new_image == Apply(p, orbit_element)
      IN  IF new_image \in DOMAIN record.transversal \/ new_image \in DOMAIN new_transversal
          THEN LET r1 == RepresentativeRaw(record.transversal, record.base, new_image)
                   image_repr ==
                       IF r1.some THEN r1.val
                       ELSE RepresentativeRaw(new_transversal, record.base, new_image).val
                   new_perm == Mul(Mul(orbit_element_repr, p), Inv(image_repr))
               IN  FirstLoop(sel, ExtendLowerLevel(sel, c, pos, new_perm), pos, p,
                             record, rest, new_transversal)
          ELSE FirstLoop(sel, c, pos, p, record, rest,
                         Insert(new_transversal, new_image, Inv(p)))

\* Mutant of GeneratorLoop: a known image hands nothing to the next level.
GeneratorLoopNoSchreier(sel, c, pos, p, record, to_check, orbit_element, orbit_element_repr, gi) ==
    LET gens == <<p>> \o record.gens
    IN  IF gi > Len(gens) THEN [chain |-> c, record |-> record, to_check |-> to_check]
        ELSE
          LET generator == gens[gi]
              new_image == Apply(generator, orbit_element)
          IN  IF new_image \in DOMAIN record.transversal
              THEN GeneratorLoop(sel, c, pos, p, record, to_check, orbit_element,
                                 orbit_element_repr, gi + 1)
              ELSE GeneratorLoop(sel, c, pos, p,
                                 [record EXCEPT !.transversal =
                                      Insert(@, new_image, Inv(generator))],
                                 Append(to_check, new_image),
                                 orbit_element, orbit_element_repr, gi + 1)

\* The for loop over once(p).chain(record.gens) for one orbit element of
\* the second work-list.
GeneratorLoop(sel, c, pos, p, record, to_check, orbit_element, orbit_element_repr, gi) ==
    LET gens == <<p>> \o record.gens
    IN  IF gi > Len(gens) THEN [chain |-> c, record |-> record, to_check |-> to_check]
        ELSE
          LET generator == gens[gi]
              new_image == Apply(generator, orbit_element)
          IN  IF new_image \in DOMAIN record.transversal
              THEN LET image_repr ==
                           RepresentativeRaw(record.transversal, record.base, new_image).val
                       new_perm == Mul(Mul(orbit_element_repr, generator), Inv(image_repr))
                   IN  GeneratorLoop(sel, ExtendLowerLevel(sel, c, pos, new_perm), pos, p,
                                     record, to_check, orbit_element, orbit_element_repr, gi + 1)
              ELSE GeneratorLoop(sel, c, pos, p,
                                 [record EXCEPT !.transversal =
                                      Insert(@, new_image, Inv(generator))],
                                 Append(to_check, new_image),
                                 orbit_element, orbit_element_repr, gi + 1)

\* Second work-list: the newly added points are closed under p and the
\* record's generators.
SecondLoop(sel, c, pos, p, record, to_check) ==
    IF to_check = <<>> THEN [chain |-> c, record |-> record]
    ELSE
      LET orbit_element == to_check[Len(to_check)]
          rest == SubSeq(to_check, 1, Len(to_check) - 1)
          orbit_element_repr ==
              RepresentativeRaw(record.transversal, record.base, orbit_element).val
          g == GeneratorLoop(sel, c, pos, p, record, rest, orbit_element,
                             orbit_element_repr, 1)
      IN  SecondLoop(sel, g.chain, pos, p, g.record, g.to_check)

\* Mutant of ExtendInner: p is prepended to the generators of the record one
\* level below the one being extended.
ExtendInnerGensOneLevelDown(sel, c, pos, p) ==
    IF IsInGroup(c, pos, p) THEN c
    ELSE IF BottomOfTheChain(c, pos)
    THEN LET moved_point == MovedPoint(sel, p)
             w == BottomWalk(p, moved_point, Apply(p, moved_point),
                             Insert(EmptyMap, moved_point, Id), p)
             record == Record(moved_point, <<p>>, w.transversal)
         IN  ExtendLowerLevel(sel, Append(c, record), pos, w.representative)
    ELSE LET record == c[pos + 1]
             s1 == FirstLoop(sel, c, pos, p, record, Keys(record.transversal), EmptyMap)
             record1 == [record EXCEPT !.transversal = Extend(@, s1.new_transversal)]
             s2 == SecondLoop(sel, s1.chain, pos, p, record1, Keys(s1.new_transversal))
         IN  [i \in 1 .. Len(s2.chain) |->
                 IF i = pos + 1 THEN s2.record
                 ELSE IF i = pos + 2 THEN [s2.chain[i] EXCEPT !.gens = <<p>> \o @]
                 ELSE s2.chain[i]]

\* Mutant of ExtendInner: the new bottom record's transversal is seeded with
\* p at the base instead of the identity.
ExtendInnerSeedsP(sel, c, pos, p) ==
    IF IsInGroup(c, pos, p) THEN c
    ELSE IF BottomOfTheChain(c, pos)
    THEN LET moved_point == MovedPoint(sel, p)
             w == BottomWalk(p, moved_point, Apply(p, moved_point),
                             Insert(EmptyMap, moved_point, p), p)
             record == Record(moved_point, <<p>>, w.transversal)
         IN  ExtendLowerLevel(sel, Append(c, record), pos, w.representative)
    ELSE LET record == c[pos + 1]
             s1 == FirstLoop(sel, c, pos, p, record, Keys(record.transversal), EmptyMap)
             record1 == [record EXCEPT !.transversal = Extend(@, s1.new_transversal)]
             s2 == SecondLoop(sel, s1.chain, pos, p, record1, Keys(s1.new_transversal))
             record2 == [s2.record EXCEPT !.gens = <<p>> \o record.gens]
         IN  [s2.chain EXCEPT ![pos + 1] = record2]

\* extend_inner(p) at level pos: the chain it leaves.
ExtendInner(sel, c, pos, p) ==
    IF IsInGroup(c, pos, p) THEN c
    ELSE IF BottomOfTheChain(c, pos)
    THEN LET moved_point == MovedPoint(sel, p)
             w == BottomWalk(p, moved_point, Apply(p, moved_point),
                             Insert(EmptyMap, moved_point, Id), p)
             record == Record(moved_point, <<p>>, w.transversal)
         IN  ExtendLowerLevel(sel, Append(c, record), pos, w.representative)
    ELSE LET record == c[pos + 1]
             s1 == FirstLoop(sel, c, pos, p, record, Keys(record.transversal), EmptyMap)
             record1 == [record EXCEPT !.transversal = Extend(@, s1.new_transversal)]
             s2 == SecondLoop(sel, s1.chain, pos, p, record1, Keys(s1.new_transversal))
             record2 == [s2.record EXCEPT !.gens = <<p>> \o record.gens]
         IN  [s2.chain EXCEPT ![pos + 1] = record2]

(***************************************************************************)
(* The IFT builder as a state machine: new, then set_generators absorbing  *)
(* the generators one by one, then build.                                  *)
(***************************************************************************)
\* No Cube has been made.
CubeIdle ==
    /\ cube = [cube |-> {}, orbit |-> EmptyMap, depth |-> EmptyMap]
    /\ cube_base = 0
    /\ orbit_size = None

\* The randomized builder's fields while no randomized builder runs.
RandomIdle ==
    /\ n = 0
    /\ base = <<>>
    /\ up_to_date = 1
    /\ constants = [order |-> None]
    /\ snap = <<>>
    /\ subproducts = <<>>
    /\ cand_idx = 0
    /\ g_word = <<>>
    /\ all_discarded = TRUE
    /\ b_star = 0
    /\ stack = <<>>
    /\ old_chain = <<>>
    /\ new_base = <<>>
    /\ debug_assertions = TRUE
    /\ rand_perm = [size |-> 0, gen_elements |-> <<>>, accum |-> Id]
    /\ initial_runs = 0
    /\ returned = None
    /\ CubeIdle
    /\ calls = <<>>
    /\ draws = {}

\* Generators the inputs are drawn from: every permutation while the point
\* set has at most four points; beyond that the adjacent transpositions, the
\* cycle through all the points, the identity and a permutation with a
\* cycle of two and a cycle of three points.
Transposition(a, b) == [x \in Points |-> IF x = a THEN b ELSE IF x = b THEN a ELSE x]

CycleAll == [x \in Points |-> (x + 1) % NPoints]

GenPool ==
    IF Cardinality(Points) <= 4 THEN Perms
    ELSE {Transposition(i, i + 1) : i \in 0 .. (NPoints - 2)}
         \cup {CycleAll, Id,
               Mul(Transposition(0, 1), Mul(Transposition(2, 3), Transposition(3, 4)))}

GenLists == UNION {[1 .. len -> GenPool] : len \in 0 .. MaxGens}

Init ==
    /\ group \in GenLists
    /\ selector \in Selectors
    /\ hashOrder \in HashOrders
    /\ gen_idx = 0
    /\ chain = <<>>
    /\ current_pos = 0
    /\ pc = "set_generators"
    /\ RandomIdle

\* One iteration of the for loop of set_generators.
SetGeneratorsStep ==
    /\ pc = "set_generators"
    /\ gen_idx < Len(group)
    /\ chain' = ExtendInner(selector, chain, 0, group[gen_idx + 1])
    /\ current_pos' = 0
    /\ gen_idx' = gen_idx + 1
    /\ UNCHANGED <<group, selector, hashOrder, pc>>
    /\ UNCHANGED randomVars

\* set_generators returns and build hands the chain out.
Build ==
    /\ pc = "set_generators"
    /\ gen_idx = Len(group)
    /\ pc' = "built"
    /\ UNCHANGED <<group, gen_idx, chain, current_pos, selector, hashOrder>>
    /\ UNCHANGED randomVars

Next == SetGeneratorsStep \/ Build

Spec == Init /\ [][Next]_vars

\* The group generated by the input generators.
G == Generated(SeqSet(group))

\* C1: for every generator list, the product of the transversal sizes of the
\* chain the IFT builder hands out equals the order of the group generated
\* by the list.
IftOrderCorrect == pc = "built" => Order(chain) = Cardinality(G)

\* C1 witness: a built chain of at least two levels for a two-generator group
\* that is larger than any cyclic group on the points.
IftOrderWitness ==
    /\ pc = "built"
    /\ Len(group) = 2
    /\ Len(chain) >= 2
    /\ Cardinality(G) > NPoints
    /\ Order(chain) = Cardinality(G)

\* C2: a permutation sifts to the identity through the whole built chain
\* exactly when it belongs to the group generated by the input list.
IftMembership ==
    pc = "built" => \A p \in Perms : IsInGroup(chain, 0, p) <=> p \in G

\* C2 witness: a built chain for a proper non-trivial subgroup: some
\* non-identity product of the generators sifts to the identity and some
\* permutation outside the group does not.
IftMembershipWitness ==
    /\ pc = "built"
    /\ Len(group) = 2
    /\ \E p \in Perms : p \notin G /\ ~IsInGroup(chain, 0, p)
    /\ LET q == Mul(group[1], group[2])
       IN  ~IsId(q) /\ q \notin SeqSet(group) /\ IsInGroup(chain, 0, q)

\* Base points of the first i records of c.
BasesBefore(c, i) == {c[j].base : j \in 1 .. (i - 1)}

Fixes(p, S) == \A x \in S : Apply(p, x) = x

\* Every generator of every record fixes the base points of the records
\* above it.
StabilizerChainValid(c) ==
    \A i \in 1 .. Len(c) : \A j \in 1 .. Len(c[i].gens) :
        Fixes(c[i].gens[j], BasesBefore(c, i))

\* C3: in the built chain every generator stored in record i+1 fixes the
\* base points of records 0..i.
IftStabilizerValid == pc = "built" => StabilizerChainValid(chain)

\* C3 witness: a built chain whose second record holds a generator that is
\* not the identity.
IftStabilizerWitness ==
    /\ pc = "built"
    /\ Len(chain) >= 2
    /\ \E j \in 1 .. Len(chain[2].gens) : ~IsId(chain[2].gens[j])
    /\ StabilizerChainValid(chain)

\* The base's entry is the identity and every key's representative maps the
\* base to the key.
TransversalConsistent(r) ==
    /\ r.base \in DOMAIN r.transversal
    /\ r.transversal[r.base] = Id
    /\ \A a \in DOMAIN r.transversal :
        LET rep == RepresentativeRaw(r.transversal, r.base, a)
        IN  rep.some /\ Apply(rep.val, r.base) = a

\* C4: in every record of the built chain the base's transversal entry is
\* the identity and the representative of every transversal point maps the
\* base to that point.
IftTransversalConsistent ==
    pc = "built" => \A i \in 1 .. Len(chain) : TransversalConsistent(chain[i])

\* C4 witness: a built chain with a record whose orbit is all the points
\* and was reached with two different stored entries.
IftTransversalWitness ==
    /\ pc = "built"
    /\ Len(chain) >= 1
    /\ DOMAIN chain[1].transversal = Points
    /\ \E a, b \in Points \ {chain[1].base} : chain[1].transversal[a] # chain[1].transversal[b]
    /\ TransversalConsistent(chain[1])

(***************************************************************************)
(* Randomized builder (StabchainBuilderRandom): permutation words, the     *)
(* sift of a word, and transversal augmentation.                           *)
(***************************************************************************)
\* apply_permutation_word: fold the letters over the point, left to right.
RECURSIVE ApplyPermutationWord(_, _)
ApplyPermutationWord(perm_word, x) ==
    IF perm_word = <<>> THEN x
    ELSE ApplyPermutationWord(Tail(perm_word), Apply(Head(perm_word), x))

\* collapse_perm_word: fold multiply over the letters, starting at id.
RECURSIVE CollapseFrom(_, _)
CollapseFrom(w, accum) ==
    IF w = <<>> THEN accum ELSE CollapseFrom(Tail(w), Mul(accum, Head(w)))

CollapsePermWord(w) == CollapseFrom(w, Id)

\* gw_bar.iter().map(|p| p.inv()).rev()
InverseWord(w) == [i \in 1 .. Len(w) |-> Inv(w[Len(w) + 1 - i])]

\* representative_raw_as_word: the representative as the word of the
\* inverted entries met on the walk, last met first.
RECURSIVE RepWordWalk(_, _, _, _, _)
RepWordWalk(T, b, pt, word, fuel) ==
    IF pt = b THEN Some(word)
    ELSE IF pt \notin DOMAIN T \/ fuel = 0 THEN None
    ELSE RepWordWalk(T, b, Apply(T[pt], pt), <<Inv(T[pt])>> \o word, fuel - 1)

RepresentativeRawAsWord(T, b, pt) ==
    IF pt \notin DOMAIN T THEN None ELSE RepWordWalk(T, b, pt, <<>>, NPoints)

\* factored_transversal_complete_opt: the orbit of the base under the
\* generators, each point stored with the inverse of the generator that
\* reached it first.
RECURSIVE OrbitLoop(_, _, _, _)
OrbitLoop(gens, T, to_check, gi) ==
    IF to_check = <<>> THEN T
    ELSE IF gi > Len(gens) THEN OrbitLoop(gens, T, Tail(to_check), 1)
    ELSE LET image == Apply(gens[gi], Head(to_check))
         IN  IF image \in DOMAIN T THEN OrbitLoop(gens, T, to_check, gi + 1)
             ELSE OrbitLoop(gens, Insert(T, image, Inv(gens[gi])),
                            Append(to_check, image), gi + 1)

FactoredTransversalCompleteOpt(gens, b) ==
    OrbitLoop(gens, Insert(EmptyMap, b, Id), <<b>>, 1)

\* Group::symmetric_super_order: 1 + the largest moved point of any
\* generator, 0 for the trivial group.
SymmetricSuperOrder(gens) ==
    LET moved == UNION {Moved(gens[i]) : i \in 1 .. Len(gens)}
    IN  IF moved = {} THEN 0 ELSE 1 + SetMax(moved)

\* residue_as_words_from_words over the records from level pos on: the
\* word grows by the inverse of one representative per level passed.
RECURSIVE ResidueLoop(_, _, _, _)
ResidueLoop(c, pos, g, k) ==
    IF pos + k >= Len(c) THEN [level |-> k, word |-> g]
    ELSE LET record == c[pos + k + 1]
             application == ApplyPermutationWord(g, record.base)
         IN  IF application \notin DOMAIN record.transversal
             THEN [level |-> k, word |-> g]
             ELSE LET representative ==
                          RepresentativeRaw(record.transversal, record.base, application).val
                  IN  ResidueLoop(c, pos, Append(g, Inv(representative)), k + 1)

ResidueAsWordsFromWords(c, pos, p) == ResidueLoop(c, pos, p, 0)

\* is_trivial_residue
IsTrivialResidue(p_as_words, points) ==
    \A x \in points : ApplyPermutationWord(p_as_words, x) = x

\* is_trivial_residue_all_points leaving out one more point.
IsTrivialResidueAllButTwo(p_as_words, nn) == IsTrivialResidue(p_as_words, 0 .. (nn - 2))

\* is_trivial_residue_all_points: the points 0 .. n-1.
IsTrivialResidueAllPoints(p_as_words, nn) == IsTrivialResidue(p_as_words, 0 .. (nn - 1))

\* sifted
Sifted(c, pos, drop_out_level) == pos + drop_out_level = Len(c)

\* The for loop of check_transversal_augmentation over once(p).chain(gens)
\* for one orbit element: entry(new_image).or_insert_with(..).
RECURSIVE AugmentGeneratorLoop(_, _, _, _, _)
AugmentGeneratorLoop(p, record, to_check, orbit_element, gi) ==
    LET gens == <<p>> \o record.gens
    IN  IF gi > Len(gens) THEN [record |-> record, to_check |-> to_check]
        ELSE LET generator == gens[gi]
                 new_image == Apply(generator, orbit_element)
             IN  IF new_image \in DOMAIN record.transversal
                 THEN AugmentGeneratorLoop(p, record, to_check, orbit_element, gi + 1)
                 ELSE AugmentGeneratorLoop(p,
                          [record EXCEPT !.transversal = Insert(@, new_image, Inv(generator))],
                          Append(to_check, new_image), orbit_element, gi + 1)

RECURSIVE AugmentSecondLoop(_, _, _)
\* Second work-list of check_transversal_augmentation left out.
AugmentSecondLoopSkipped(p, record, to_check) == record

\* Second work-list of check_transversal_augmentation.
AugmentSecondLoop(p, record, to_check) ==
    IF to_check = <<>> THEN record
    ELSE LET orbit_element == to_check[Len(to_check)]
             rest == SubSeq(to_check, 1, Len(to_check) - 1)
             g == AugmentGeneratorLoop(p, record, rest, orbit_element, 1)
         IN  AugmentSecondLoop(p, g.record, g.to_check)

\* First work-list of check_transversal_augmentation: the images under p
\* of the known points that are not known yet, each stored with p.inv()
\* (p is injective, so the order the points are taken in does not matter).
AugmentFirstLoop(p, record) ==
    LET keys == DOMAIN record.transversal
    IN  [y \in {Apply(p, x) : x \in keys} \ keys |-> Inv(p)]

\* check_transversal_augmentation_at_level(level, p): the chain with the
\* record at the level augmented; current_pos is put back afterwards.
CheckTransversalAugmentationAtLevel(c, level, p) ==
    LET record == c[level + 1]
        new_transversal == AugmentFirstLoop(p, record)
        record1 == [record EXCEPT !.transversal = Extend(@, new_transversal)]
        record2 == AugmentSecondLoop(p, record1, Keys(new_transversal))
        record3 == IF p \in SeqSet(record.gens) THEN record2
                   ELSE [record2 EXCEPT !.gens = <<p>> \o record.gens]
    IN  [c EXCEPT ![level + 1] = record3]

\* t of random_schrier_generators_as_word: the sum over the records of
\* transversal size plus number of generators.
RECURSIVE DepthSum(_, _)
DepthSum(c, i) ==
    IF i > Len(c) THEN 0
    ELSE Cardinality(DOMAIN c[i].transversal) + Len(c[i].gens) + DepthSum(c, i + 1)

RECURSIVE GensFrom(_, _)
\* GensFrom taking the generators of the top record at every level.
GensFromTopRecord(c, pos) ==
    IF pos >= Len(c) THEN <<>> ELSE c[1].gens \o GensFrom(c, pos + 1)

\* The generators of the records from level pos on, in order.
GensFrom(c, pos) ==
    IF pos >= Len(c) THEN <<>> ELSE c[pos + 1].gens \o GensFrom(c, pos + 1)

\* random_subproduct_word_subset(rng, gens, k): choose_multiple picks up
\* to k generators at distinct indices in a random order and the filter
\* drops each with probability 1/2, so every arrangement of at most k
\* distinct indices can come out.  A word acts only through
\* apply_permutation_word and collapse_perm_word, so a draw is kept as the
\* one-letter word of its product.
\* Layer j holds the pairs <<indices used, product>> of the arrangements
\* of j indices.
RECURSIVE SubproductLayers(_, _, _, _)
SubproductLayers(gens, layer, j, k) ==
    IF j >= k \/ layer = {} THEN {pr[2] : pr \in layer}
    ELSE {pr[2] : pr \in layer} \cup
         SubproductLayers(gens,
             UNION {{<<pr[1] \cup {i}, Mul(pr[2], gens[i])>> :
                        i \in (1 .. Len(gens)) \ pr[1]} : pr \in layer},
             j + 1, k)

RandomSubproductWordSubset(gens, k) ==
    {<<q>> : q \in SubproductLayers(gens, {<<{}, Id>>}, 0, k)}

\* random_subproduct_word_full
RandomSubproductWordFull(gens) == RandomSubproductWordSubset(gens, Len(gens))

\* The subproduct_iter of random_schrier_generators_as_word: full and
\* short subproducts interleaved, 2 * subproducts of them; the short ones
\* take k from gen_range(0 .. 1 + gens.len() / 2).
SubproductIters(gens, count) ==
    {w \in [1 .. 2 * count ->
               RandomSubproductWordFull(gens)] :
        \A i \in 1 .. count : w[2 * i] \in RandomSubproductWordSubset(gens, Len(gens) \div 2)}

\* Number of words random_schrier_generators_as_word returns.
NumProducts(c, subs, reps) == reps * DepthSum(c, 1) * 2 * subs

(***************************************************************************)
(* The randomized builder as a state machine.  No call of sgc or sgt      *)
(* returns before the whole construction is over, so the call stack only   *)
(* grows until then.  stack holds one frame per active call: an sgc frame  *)
(* has nothing left to do when its callee returns; an sgt frame holds      *)
(* original_position, current_order and the call site it waits at ("loop": *)
(* no call made yet, "after_fail": the sgc called from the product loop,   *)
(* "after_restart": the sgc called by the known-order check).  The         *)
(* products of a pass do not depend on one another, so each is drawn when  *)
(* its turn comes, against the chain as it was when the pass began (snap). *)
(***************************************************************************)
\* Number of nested calls of sgc and sgt the model follows.
MaxDepth == 4

\* Constants of RandomAlgoParameters: one subproduct pair and one coset
\* representative per unit of t, with the orbit bound either never or
\* always exceeded.
ParamChoices ==
    {[c1 |-> 1, c2 |-> 1, c3 |-> 1, c4 |-> 1, orbit_bound |-> ob, base_bound |-> 1,
      order |-> None] : ob \in {1, NPoints}}

\* Generator lists of the randomized builder: no generator is the identity
\* (the selector is asked for a moved point of every generator).  They
\* generate the trivial group, a group of order 2, the cyclic group of
\* order NPoints, the symmetric group on three points, a group of order 4
\* with two orbits and a dihedral group.
RandomGenLists ==
    {<<>>,
     <<Transposition(0, 1)>>,
     <<CycleAll>>,
     <<Transposition(0, 1), Transposition(1, 2)>>,
     <<Transposition(0, 1), Mul(Transposition(0, 1), Transposition(2, 3))>>,
     <<CycleAll, Mul(Transposition(0, 1), Transposition(2, 3))>>}

\* The symmetric group on all the points: its chain has three or more
\* records, so residues drop out below the top record.
SymmetricGens == <<Transposition(0, 1), CycleAll>>

\* The small groups are followed under every selector, iteration order and
\* choice of constants, with and without a known order; the symmetric
\* group under one of each, with its order known.
InitRandom ==
    /\ \/ /\ group \in RandomGenLists
          /\ selector \in Selectors
          /\ hashOrder \in HashOrders
          /\ \E prm \in ParamChoices : \E known \in BOOLEAN :
               constants = [prm EXCEPT !.order =
                                IF known THEN Some(Cardinality(Generated(SeqSet(group))))
                                ELSE None]
       \/ /\ group = SymmetricGens
          /\ selector = "fmp"
          /\ hashOrder = "asc"
          /\ \E prm \in ParamChoices :
               /\ prm.orbit_bound = NPoints
               /\ constants = [prm EXCEPT !.order = Some(Cardinality(Perms))]
    /\ gen_idx = 0
    /\ chain = <<>>
    /\ current_pos = 0
    /\ n = 0
    /\ base = <<>>
    /\ up_to_date = 1
    /\ snap = <<>>
    /\ subproducts = <<>>
    /\ cand_idx = 0
    /\ g_word = <<>>
    /\ all_discarded = TRUE
    /\ b_star = 0
    /\ stack = <<>>
    /\ old_chain = <<>>
    /\ new_base = <<>>
    /\ debug_assertions = TRUE
    /\ rand_perm = [size |-> 0, gen_elements |-> <<>>, accum |-> Id]
    /\ initial_runs = 0
    /\ returned = None
    /\ CubeIdle
    /\ calls = <<>>
    /\ draws = {}
    /\ pc = "construct"

inputVars == <<group, gen_idx, selector, hashOrder, constants, otherVars>>

\* The locals of a pass of sgc or sgt once the pass is over.
LocalsDropped ==
    /\ snap' = <<>>
    /\ subproducts' = <<>>
    /\ cand_idx' = 0
    /\ g_word' = <<>>
    /\ all_discarded' = TRUE
    /\ b_star' = 0

\* The frame of a call of sgc.
SgcFrame == [original_position |-> 0, current_order |-> None, site |-> "sgc"]

\* The stack once every sgc on top of it has returned.
RECURSIVE Unwind(_)
Unwind(st) ==
    IF st # <<>> /\ st[Len(st)].site = "sgc" THEN Unwind(SubSeq(st, 1, Len(st) - 1)) ELSE st

\* Where control goes when a call returns and st is the unwound stack: to
\* the sgt on top, or to construct_strong_generating_set.
ReturnTo(st) ==
    IF st = <<>> THEN "returned"
    ELSE IF st[Len(st)].site = "after_fail" THEN "sgt_check" ELSE "sgt_exit"

\* construct_strong_generating_set without its edge case for the trivial
\* group: the first record is made on point 0 when no generator gives one.
ConstructNoEdgeCase ==
    /\ pc = "construct"
    /\ LET moved_point == IF group = <<>> THEN 0
                          ELSE SetMin({MovedPoint(selector, group[i]) : i \in 1 .. Len(group)})
           initial_record == Record(moved_point, group,
                                    FactoredTransversalCompleteOpt(group, moved_point))
       IN  /\ n' = IF group = <<>> THEN 0 ELSE SymmetricSuperOrder(group) - 1
           /\ base' = Append(base, moved_point)
           /\ chain' = Append(chain, initial_record)
           /\ pc' = IF group = <<>> THEN "returned" ELSE "sgc"
    /\ UNCHANGED <<inputVars, current_pos, up_to_date, snap, subproducts, cand_idx, g_word,
                   all_discarded, b_star, stack>>

\* construct_strong_generating_set up to its call of sgc.
Construct ==
    /\ pc = "construct"
    /\ IF group = <<>>
       THEN /\ pc' = "returned"
            /\ UNCHANGED <<chain, n, base>>
       ELSE LET moved_point == SetMin({MovedPoint(selector, group[i]) : i \in 1 .. Len(group)})
                initial_record == Record(moved_point, group,
                                         FactoredTransversalCompleteOpt(group, moved_point))
            IN  /\ n' = SymmetricSuperOrder(group) - 1
                /\ base' = Append(base, moved_point)
                /\ chain' = Append(chain, initial_record)
                /\ pc' = "sgc"
    /\ UNCHANGED <<inputVars, current_pos, up_to_date, snap, subproducts, cand_idx, g_word,
                   all_discarded, b_star, stack>>

\* sgc up to the loop over random_gens: the record is cloned, b_star and
\* the subproducts are fixed.
SgcEnter ==
    /\ pc = "sgc"
    /\ Len(stack) < MaxDepth
    /\ stack' = Append(stack, SgcFrame)
    /\ LET record == chain[current_pos + 1]
       IN  b_star' = Cardinality({i \in 1 .. Len(base) : base[i] \in DOMAIN record.transversal})
    /\ subproducts' \in SubproductIters(GensFrom(chain, current_pos), constants.c1)
    /\ snap' = chain
    /\ cand_idx' = 0
    /\ g_word' = <<>>
    /\ all_discarded' = TRUE
    /\ pc' = "sgc_loop"
    /\ UNCHANGED <<inputVars, chain, current_pos, n, base, up_to_date>>

\* The points the residue of a sifted candidate is evaluated on.
EvaluatedPoints(record) ==
    LET keys == DOMAIN record.transversal
        Sample(amount) ==
            {S \in SUBSET keys :
                Cardinality(S) = IF amount < Cardinality(keys) THEN amount ELSE Cardinality(keys)}
    IN  IF Cardinality(keys) <= constants.orbit_bound THEN {keys}
        ELSE IF Len(base) <= constants.base_bound THEN Sample(constants.base_bound)
        ELSE Sample(b_star)

\* The word gw of the product with index idx of a pass that takes its
\* coset representatives from record: a new representative g starts every
\* block of 2 * subs products.
ProductWords(record, idx, subs) ==
    LET gs == IF idx % (2 * subs) = 0
              THEN {RepresentativeRawAsWord(record.transversal, record.base, point).val :
                        point \in DOMAIN record.transversal}
              ELSE {g_word}
    IN  {[g |-> g, gw |-> g \o subproducts[(idx % (2 * subs)) + 1]] : g \in gs}

\* PushRecord keeping the first generator of the top record in place of
\* h_star.
PushRecordKeepsTopGenerator(c, new_base_point, h_star) ==
    Append(c, Record(new_base_point, <<c[1].gens[1]>>,
                     FactoredTransversalCompleteOpt(<<h_star>>, new_base_point)))

\* PushRecord putting the new record in the place of the bottom one.
PushRecordReplacesBottom(c, new_base_point, h_star) ==
    [c EXCEPT ![Len(c)] = Record(new_base_point, <<h_star>>,
                                 FactoredTransversalCompleteOpt(<<h_star>>, new_base_point))]

\* PushRecord making the new record on the base point of the top record.
PushRecordOnTopBase(c, new_base_point, h_star) ==
    Append(c, Record(c[1].base, <<h_star>>,
                     FactoredTransversalCompleteOpt(<<h_star>>, c[1].base)))

\* A new bottom record whose only generator is h_star.
PushRecord(c, new_base_point, h_star) ==
    Append(c, Record(new_base_point, <<h_star>>,
                     FactoredTransversalCompleteOpt(<<h_star>>, new_base_point)))

\* One iteration of the loop of sgc over random_gens.  Each local is bound
\* to its value once (a choice from a set of one element).
SgcCandidate ==
    /\ pc = "sgc_loop"
    /\ cand_idx < NumProducts(snap, constants.c1, constants.c2)
    /\ \E pw \in ProductWords(snap[current_pos + 1], cand_idx, constants.c1) :
         \E gw_bar \in {ResidueAsWordsFromWords(snap, current_pos, pw.gw).word} :
         \E h \in {pw.gw \o InverseWord(gw_bar)} :
         \E res \in {ResidueAsWordsFromWords(chain, current_pos, h)} :
         \E h_star \in {CollapsePermWord(res.word)} :
             /\ g_word' = pw.g
             /\ IF Sifted(chain, current_pos, res.level)
                THEN \E evaluated_points \in EvaluatedPoints(snap[current_pos + 1]) :
                       IF ~IsTrivialResidue(res.word, evaluated_points)
                       THEN LET new_base_point == MovedPoint(selector, h_star)
                            IN  /\ all_discarded' = FALSE
                                /\ base' = Append(base, new_base_point)
                                /\ chain' = PushRecord(chain, new_base_point, h_star)
                                /\ up_to_date' = Len(base) + 2
                       ELSE UNCHANGED <<all_discarded, base, chain, up_to_date>>
                ELSE LET j == current_pos + res.level
                     IN  /\ chain' = CheckTransversalAugmentationAtLevel(chain, j, h_star)
                         /\ up_to_date' = j + 1
                         /\ UNCHANGED <<all_discarded, base>>
    /\ cand_idx' = cand_idx + 1
    /\ UNCHANGED <<inputVars, current_pos, n, snap, subproducts, b_star, stack, pc>>

\* The end of sgc going one level down only after a pass that kept a
\* candidate.
SgcEndStopsWhenAllDiscarded ==
    /\ pc = "sgc_loop"
    /\ cand_idx = NumProducts(snap, constants.c1, constants.c2)
    /\ up_to_date' = IF all_discarded THEN current_pos ELSE up_to_date
    /\ IF ~all_discarded /\ up_to_date' # 0 /\ current_pos # Len(chain) - 1
       THEN /\ current_pos' = current_pos + 1
            /\ pc' = "sgc"
       ELSE /\ pc' = "sgt"
            /\ UNCHANGED current_pos
    /\ LocalsDropped
    /\ UNCHANGED <<inputVars, chain, n, base, stack>>

\* The end of sgc: up_to_date is reset when everything was discarded, then
\* sgc goes one level down or sgt takes over.
SgcEnd ==
    /\ pc = "sgc_loop"
    /\ cand_idx = NumProducts(snap, constants.c1, constants.c2)
    /\ up_to_date' = IF all_discarded THEN current_pos ELSE up_to_date
    /\ IF up_to_date' # 0 /\ current_pos # Len(chain) - 1
       THEN /\ current_pos' = current_pos + 1
            /\ pc' = "sgc"
       ELSE /\ pc' = "sgt"
            /\ UNCHANGED current_pos
    /\ LocalsDropped
    /\ UNCHANGED <<inputVars, chain, n, base, stack>>

\* SgtEnter returning at once whenever an order is known.
SgtEnterReturnsUnchecked ==
    /\ pc = "sgt"
    /\ Len(stack) < MaxDepth
    /\ current_pos' = 0
    /\ IF constants.order.some
       THEN /\ stack' = Unwind(stack)
            /\ pc' = ReturnTo(stack')
            /\ UNCHANGED <<snap, subproducts, cand_idx, g_word>>
       ELSE /\ stack' = Append(stack,
                          [original_position |-> current_pos,
                           current_order |-> None,
                           site |-> "loop"])
            /\ subproducts' \in SubproductIters(GensFrom(chain, 0), constants.c3)
            /\ snap' = chain
            /\ cand_idx' = 0
            /\ g_word' = <<>>
            /\ pc' = "sgt_loop"
    /\ UNCHANGED <<inputVars, chain, n, base, up_to_date, all_discarded, b_star>>

\* sgt up to its loop over the products: with a known order that the chain
\* already has, it returns at once.
SgtEnter ==
    /\ pc = "sgt"
    /\ Len(stack) < MaxDepth
    /\ current_pos' = 0
    /\ IF constants.order.some /\ constants.order.val = Order(chain)
       THEN /\ stack' = Unwind(stack)
            /\ pc' = ReturnTo(stack')
            /\ UNCHANGED <<snap, subproducts, cand_idx, g_word>>
       ELSE /\ stack' = Append(stack,
                          [original_position |-> current_pos,
                           current_order |-> IF constants.order.some THEN Some(Order(chain))
                                             ELSE None,
                           site |-> "loop"])
            /\ subproducts' \in SubproductIters(GensFrom(chain, 0), constants.c3)
            /\ snap' = chain
            /\ cand_idx' = 0
            /\ g_word' = <<>>
            /\ pc' = "sgt_loop"
    /\ UNCHANGED <<inputVars, chain, n, base, up_to_date, all_discarded, b_star>>

\* The product with index idx of sgt: the generators of the top record
\* first, then the random products gw.
SgtProducts(idx) ==
    LET top == snap[1].gens
    IN  IF idx < Len(top) THEN {[g |-> g_word, gw |-> <<top[idx + 1]>>]}
        ELSE ProductWords(snap[1], idx - Len(top), constants.c3)

\* One iteration of the loop of sgt: sgt_test on the next product; a
\* residue that is not trivial changes the chain and sgc is called at the
\* level sgt_test returns.
SgtProduct ==
    /\ pc = "sgt_loop"
    /\ cand_idx < Len(snap[1].gens) + NumProducts(snap, constants.c3, constants.c4)
    /\ \E pw \in SgtProducts(cand_idx) :
         \E res \in {ResidueAsWordsFromWords(chain, current_pos, pw.gw)} :
         \E invoke_level \in {current_pos + res.level} :
         \E collapsed_residue \in {CollapsePermWord(res.word)} :
             IF ~IsTrivialResidueAllPoints(res.word, n)
             THEN /\ IF Sifted(chain, current_pos, res.level)
                     THEN LET moved_point == MovedPoint(selector, collapsed_residue)
                          IN  /\ base' = Append(base, moved_point)
                              /\ chain' = PushRecord(chain, moved_point, collapsed_residue)
                              /\ up_to_date' = Len(base) + 2
                     ELSE /\ chain' = CheckTransversalAugmentationAtLevel(
                                          chain, invoke_level, collapsed_residue)
                          /\ up_to_date' = current_pos + res.level + 1
                          /\ UNCHANGED base
                  /\ current_pos' = invoke_level
                  /\ stack' = [stack EXCEPT ![Len(stack)].site = "after_fail"]
                  /\ pc' = "sgc"
                  /\ LocalsDropped
             ELSE /\ cand_idx' = cand_idx + 1
                  /\ g_word' = pw.g
                  /\ UNCHANGED <<chain, base, up_to_date, current_pos, stack, pc,
                                 snap, subproducts, all_discarded, b_star>>
    /\ UNCHANGED <<inputVars, n>>

\* The loop of sgt ran out of products.
SgtLoopEnd ==
    /\ pc = "sgt_loop"
    /\ cand_idx = Len(snap[1].gens) + NumProducts(snap, constants.c3, constants.c4)
    /\ pc' = "sgt_check"
    /\ LocalsDropped
    /\ UNCHANGED <<inputVars, chain, current_pos, n, base, up_to_date, stack>>

\* The known-order check after the loop of sgt: the order saved on entry
\* is compared, and sgc is called when it differs.
SgtCheck ==
    /\ pc = "sgt_check"
    /\ LET frame == stack[Len(stack)]
       IN  IF constants.order.some /\ constants.order.val # frame.current_order.val
           THEN /\ stack' = [stack EXCEPT ![Len(stack)].site = "after_restart"]
                /\ pc' = "sgc"
           ELSE /\ pc' = "sgt_exit"
                /\ UNCHANGED stack
    /\ UNCHANGED <<inputVars, chain, current_pos, n, base, up_to_date, snap, subproducts,
                   cand_idx, g_word, all_discarded, b_star>>

\* The last statement of sgt: current_pos is put back and sgt returns.
SgtExit ==
    /\ pc = "sgt_exit"
    /\ current_pos' = stack[Len(stack)].original_position
    /\ stack' = Unwind(SubSeq(stack, 1, Len(stack) - 1))
    /\ pc' = ReturnTo(stack')
    /\ UNCHANGED <<inputVars, chain, n, base, up_to_date, snap, subproducts,
                   cand_idx, g_word, all_discarded, b_star>>

NextRandom ==
    \/ Construct
    \/ SgcEnter
    \/ SgcCandidate
    \/ SgcEnd
    \/ SgtEnter
    \/ SgtProduct
    \/ SgtLoopEnd
    \/ SgtCheck
    \/ SgtExit

SpecRandom == InitRandom /\ [][NextRandom]_vars

\* C5: with a known order equal to the order of the generated group,
\* whenever construct_strong_generating_set has returned, the product of
\* the transversal sizes of the chain is that known order.
RandomKnownOrderReached ==
    (pc = "returned" /\ constants.order.some) => Order(chain) = constants.order.val

\* C5 witness: a return with a known order after sgc added a record and
\* sgt had to be entered more than once.
RandomKnownOrderWitness ==
    /\ pc = "returned"
    /\ constants.order.some
    /\ constants.order.val = Cardinality(G)
    /\ Len(chain) >= 2
    /\ Order(chain) = Cardinality(G)
    /\ Order(chain) > Cardinality(DOMAIN chain[1].transversal)

\* Every generator of every record is an element of the group S.
GeneratorsWithin(c, S) ==
    \A j \in 1 .. Len(c) : \A i \in 1 .. Len(c[j].gens) : c[j].gens[i] \in S

\* C6: in every state of the randomized builder every generator stored in
\* record j lies in the group generated by the input and fixes the base
\* points of records 0..j-1, and the product of the orbit sizes is at most
\* the order of that group.
RandomChainSound ==
    /\ GeneratorsWithin(chain, G)
    /\ StabilizerChainValid(chain)
    /\ Order(chain) <= Cardinality(G)

\* C6 witness: in the middle of a pass of sgc the second record holds a
\* generator that check_transversal_augmentation added to it, and the
\* chain is still smaller than the group.
RandomChainSoundWitness ==
    /\ pc = "sgc_loop"
    /\ Len(chain) >= 2
    /\ Len(chain[2].gens) >= 2
    /\ \E i \in 1 .. Len(chain[2].gens) : ~IsId(chain[2].gens[i])
    /\ RandomChainSound

(***************************************************************************)
(* RandPerm (product replacement).  gen_elements is the slate, accum the   *)
(* accumulator.  A call of random_permutation on a slate of one entry      *)
(* cannot find an index t different from s and never returns (pc           *)
(* "rp_spin").                                                             *)
(***************************************************************************)
\* Largest min_size a RandPerm is created with.
MaxMinSize == 3

\* Largest initial_runs a RandPerm is created with.
MaxInitialRuns == 2

\* RandPerm::new padding the slate with the cycle through all the points
\* where the code repeats the generators.
RandPermNewPadsWithCycle(min_size, g) ==
    LET start == IF g # <<>> THEN g ELSE <<Id>>
        k == Len(start)
        size == IF min_size > k THEN min_size ELSE k
    IN  [size |-> size,
         gen_elements |-> [i \in 1 .. size |-> IF i <= k THEN start[i] ELSE CycleAll],
         accum |-> Id]

\* RandPerm::new up to its warm-up loop: the generators (the identity when
\* there are none), repeated cyclically up to min_size entries.
RandPermNew(min_size, g) ==
    LET start == IF g # <<>> THEN g ELSE <<Id>>
        k == Len(start)
        size == IF min_size > k THEN min_size ELSE k
    IN  [size |-> size,
         gen_elements |-> [i \in 1 .. size |->
                              IF i <= k THEN start[i] ELSE start[((i - 1 - k) % k) + 1]],
         accum |-> Id]

\* Mutant of RandomPermutation: the accumulator is multiplied on the right
\* whichever side was drawn.
RandomPermutationAccumOnRight(rp, s, t, e, right) ==
    LET gs == rp.gen_elements[s + 1]
        gt == Pow(rp.gen_elements[t + 1], e)
        new_s == IF right THEN Mul(gs, gt) ELSE Mul(gt, gs)
    IN  [rp EXCEPT !.gen_elements[s + 1] = new_s,
                   !.accum = Mul(rp.accum, new_s)]

\* random_permutation once s, t (0-based), e and the side are drawn.
RandomPermutation(rp, s, t, e, right) ==
    LET gs == rp.gen_elements[s + 1]
        gt == Pow(rp.gen_elements[t + 1], e)
        new_s == IF right THEN Mul(gs, gt) ELSE Mul(gt, gs)
    IN  [rp EXCEPT !.gen_elements[s + 1] = new_s,
                   !.accum = IF right THEN Mul(rp.accum, new_s) ELSE Mul(new_s, rp.accum)]

\* Mutant of RandomPermutationDraws: t is not redrawn when it equals s.
RandomPermutationDrawsAnyT(rp) ==
    LET indices == 0 .. (rp.size - 1)
        choices == indices \X indices \X {1, 0 - 1} \X BOOLEAN
    IN  {RandomPermutation(rp, c[1], c[2], c[3], c[4]) : c \in choices}

\* The outcomes of one call of random_permutation on rp.
RandomPermutationDraws(rp) ==
    LET indices == 0 .. (rp.size - 1)
        choices == {c \in indices \X indices \X {1, 0 - 1} \X BOOLEAN : c[1] # c[2]}
    IN  {RandomPermutation(rp, c[1], c[2], c[3], c[4]) : c \in choices}

\* One call of random_permutation on rand_perm.
CallRandomPermutation ==
    IF rand_perm.size <= 1
    THEN /\ pc' = "rp_spin"
         /\ UNCHANGED <<rand_perm, returned>>
    ELSE /\ rand_perm' \in RandomPermutationDraws(rand_perm)
         /\ returned' = Some(rand_perm'.accum)
         /\ UNCHANGED pc

randPermIdle == <<gen_idx, chain, current_pos, selector, hashOrder,
                  n, base, up_to_date, constants, snap, subproducts, cand_idx, g_word,
                  all_discarded, b_star, stack, old_chain, new_base, debug_assertions,
                  cubeVars, calls, draws>>

\* Generator lists RandPerm is created from: the lists of the randomized
\* builder and the symmetric group.
RandPermGenLists == RandomGenLists \cup {SymmetricGens}

InitRandPerm ==
    /\ group \in RandPermGenLists
    /\ initial_runs \in 0 .. MaxInitialRuns
    /\ \E min_size \in 0 .. MaxMinSize : rand_perm = RandPermNew(min_size, group)
    /\ returned = None
    /\ CubeIdle
    /\ calls = <<>>
    /\ draws = {}
    /\ gen_idx = 0
    /\ chain = <<>>
    /\ current_pos = 0
    /\ selector = "lmp"
    /\ hashOrder = "asc"
    /\ n = 0
    /\ base = <<>>
    /\ up_to_date = 1
    /\ constants = [order |-> None]
    /\ snap = <<>>
    /\ subproducts = <<>>
    /\ cand_idx = 0
    /\ g_word = <<>>
    /\ all_discarded = TRUE
    /\ b_star = 0
    /\ stack = <<>>
    /\ old_chain = <<>>
    /\ new_base = <<>>
    /\ debug_assertions = TRUE
    /\ pc = "rp_new"

\* One iteration of the warm-up loop of RandPerm::new.
RandPermWarmUp ==
    /\ pc = "rp_new"
    /\ initial_runs > 0
    /\ initial_runs' = initial_runs - 1
    /\ CallRandomPermutation
    /\ UNCHANGED <<group, randPermIdle>>

\* RandPerm::new returns.
RandPermReady ==
    /\ pc = "rp_new"
    /\ initial_runs = 0
    /\ pc' = "rp_ready"
    /\ UNCHANGED <<group, randPermIdle, rand_perm, initial_runs, returned>>

\* A call of random_permutation by the owner of the RandPerm.
RandPermCall ==
    /\ pc = "rp_ready"
    /\ CallRandomPermutation
    /\ UNCHANGED <<group, randPermIdle, initial_runs>>

NextRandPerm == RandPermWarmUp \/ RandPermReady \/ RandPermCall

SpecRandPerm == InitRandPerm /\ [][NextRandPerm]_vars

\* C9: whatever a call of random_permutation returned, in the warm-up of
\* new or after it, is an element of the group generated by the generators
\* the RandPerm was created from; with no generators it is the identity.
RandPermClosed ==
    returned.some =>
        /\ returned.val \in Generated(SeqSet(group))
        /\ group = <<>> => IsId(returned.val)

\* C9 witness: new has returned, and the last call of random_permutation
\* returned an element of the group that is neither the identity nor one
\* of the generators, from a slate that no longer holds only generators.
RandPermClosedWitness ==
    /\ pc = "rp_ready"
    /\ returned.some
    /\ ~IsId(returned.val)
    /\ returned.val \notin SeqSet(group)
    /\ returned.val \in Generated(SeqSet(group))
    /\ \E i \in 1 .. rand_perm.size : rand_perm.gen_elements[i] \notin SeqSet(group)

(***************************************************************************)
(* Base-change builder (RandomBaseChangeBuilder).  set_base runs           *)
(* random_base_change; each iteration of its while loop is one step.  The  *)
(* RandPerm it draws from has MIN_SIZE = 11 slate entries; its draws are   *)
(* taken from the whole group generated by the strong generators, which    *)
(* holds every permutation random_permutation can return (RandPermClosed). *)
(***************************************************************************)
\* StabchainRecord::trivial_record
TrivialRecord(b) == Record(b, <<>>, Insert(EmptyMap, b, Id))

\* Stabchain::strong_generating_set: the generators of all the records.
StrongGeneratingSet(c) == GensFrom(c, 0)

\* Stabchain::base
BaseOf(c) == [i \in 1 .. Len(c) |-> c[i].base]

\* shallow_transversal(gens, base, ..).0: a transversal of the whole orbit
\* of the base under the generators.
ShallowTransversal(gens, b) == FactoredTransversalCompleteOpt(gens, b)

\* What rand_perm.random_permutation() can return in random_base_change.
RandPermDraws(sgs) == Generated(SeqSet(sgs))

RECURSIVE ResidueWithDropoutLoop(_, _, _)
\* The loop of residue_with_dropout without the division by the
\* representative.
ResidueWithDropoutLoopNoDivide(c, g, i) ==
    IF i >= Len(c) THEN [g |-> g, i |-> i]
    ELSE LET record == c[i + 1]
             application == Apply(g, record.base)
         IN  IF application \notin DOMAIN record.transversal THEN [g |-> g, i |-> i]
             ELSE ResidueWithDropoutLoop(c, g, i + 1)

\* The loop of residue_with_dropout over the records.
ResidueWithDropoutLoop(c, g, i) ==
    IF i >= Len(c) THEN [g |-> g, i |-> i]
    ELSE LET record == c[i + 1]
             application == Apply(g, record.base)
         IN  IF application \notin DOMAIN record.transversal THEN [g |-> g, i |-> i]
             ELSE LET representative ==
                          RepresentativeRaw(record.transversal, record.base, application).val
                  IN  ResidueWithDropoutLoop(c, Mul(g, Inv(representative)), i + 1)

\* residue_with_dropout
ResidueWithDropout(c, p) ==
    IF IsId(p) THEN [g |-> p, i |-> Len(c)] ELSE ResidueWithDropoutLoop(c, p, 0)

\* Mutant of UpdateSchrierTree: the generator is stored and the transversal
\* is left as it was.
UpdateSchrierTreeKeepsTransversal(c, level, g) ==
    LET record == c[level + 1]
        gens == Append(record.gens, g)
    IN  [c EXCEPT ![level + 1] = Record(record.base, gens, record.transversal)]

\* Mutant of UpdateSchrierTree: the generator goes to the record one level
\* below, when there is one.
UpdateSchrierTreeLevelBelow(c, level, g) ==
    LET below == IF level + 1 < Len(c) THEN level + 1 ELSE level
        record == c[below + 1]
        gens == Append(record.gens, g)
    IN  [c EXCEPT ![below + 1] = Record(record.base, gens, ShallowTransversal(gens, record.base))]

\* update_schrier_tree past its debug_assert
UpdateSchrierTree(c, level, g) ==
    LET record == c[level + 1]
        gens == Append(record.gens, g)
    IN  [c EXCEPT ![level + 1] = Record(record.base, gens, ShallowTransversal(gens, record.base))]

\* The debug_assert! of set_base: no point twice, every point of the old
\* base present.
BaseAccepted(c, new) ==
    /\ Cardinality(SeqSet(new)) = Len(new)
    /\ \A i \in 1 .. Len(c) : c[i].base \in SeqSet(new)

\* The chain the IFT builder makes of a generator list.
RECURSIVE IftChain(_, _, _)
IftChain(sel, gl, count) ==
    IF count = 0 THEN <<>>
    ELSE ExtendInner(sel, IftChain(sel, gl, count - 1), 0, gl[count])

\* The bases handed to set_base: every sequence of points up to NPoints
\* long, with and without repeated points.
Bases == UNION {[1 .. len -> Points] : len \in 0 .. NPoints}

\* The bases the chain of the symmetric group is changed to: all the
\* points in descending and in ascending order.
SymmetricBases == {[i \in 1 .. NPoints |-> NPoints - i], [i \in 1 .. NPoints |-> i - 1]}

\* The chains of the small groups are changed to every base, under both
\* builds; the chain of the symmetric group to the bases above.
InitBaseChange ==
    /\ \/ /\ group \in RandomGenLists
          /\ selector \in Selectors
          /\ hashOrder \in HashOrders
          /\ old_chain = IftChain(selector, group, Len(group))
          /\ new_base \in Bases
          /\ debug_assertions \in BOOLEAN
       \/ /\ group = SymmetricGens
          /\ selector = "lmp"
          /\ hashOrder = "asc"
          /\ old_chain = IftChain(selector, group, Len(group))
          /\ new_base \in SymmetricBases
          /\ debug_assertions = TRUE
    /\ gen_idx = 0
    /\ chain = <<>>
    /\ current_pos = 0
    /\ n = 0
    /\ base = <<>>
    /\ up_to_date = 1
    /\ constants = [order |-> None]
    /\ snap = <<>>
    /\ subproducts = <<>>
    /\ cand_idx = 0
    /\ g_word = <<>>
    /\ all_discarded = TRUE
    /\ b_star = 0
    /\ stack = <<>>
    /\ rand_perm = [size |-> 0, gen_elements |-> <<>>, accum |-> Id]
    /\ initial_runs = 0
    /\ returned = None
    /\ CubeIdle
    /\ calls = <<>>
    /\ draws = {}
    /\ pc = "set_base"

baseChangeIdle == <<group, gen_idx, current_pos, selector, hashOrder,
                    n, base, up_to_date, constants, snap, subproducts, cand_idx, g_word,
                    all_discarded, b_star, stack, rand_perm, initial_runs, returned,
                    old_chain, new_base, debug_assertions, cubeVars, calls>>

\* set_base up to the while loop of random_base_change: the debug_assert!,
\* then the chain of trivial records.
SetBase ==
    /\ pc = "set_base"
    /\ IF debug_assertions /\ ~BaseAccepted(old_chain, new_base)
       THEN /\ pc' = "bc_panicked"
            /\ UNCHANGED <<chain, draws>>
       ELSE /\ chain' = [i \in 1 .. Len(new_base) |-> TrivialRecord(new_base[i])]
            /\ draws' = RandPermDraws(StrongGeneratingSet(old_chain))
            /\ pc' = "bc_loop"
    /\ UNCHANGED baseChangeIdle

\* One iteration of the while loop of random_base_change in which
\* random_permutation returns g.
BaseChangeDraw(g) ==
    /\ pc = "bc_loop"
    /\ Order(chain) < Order(old_chain)
    /\ g \in draws
    /\ LET res == ResidueWithDropout(chain, g)
       IN  IF res.i < Len(new_base)
           THEN IF debug_assertions /\ IsId(res.g)
                THEN /\ pc' = "bc_panicked"
                     /\ UNCHANGED chain
                ELSE /\ chain' = UpdateSchrierTree(chain, res.i, res.g)
                     /\ UNCHANGED pc
           ELSE UNCHANGED <<chain, pc>>
    /\ UNCHANGED <<draws, baseChangeIdle>>

\* One iteration of the while loop of random_base_change.
BaseChangeStep == \E g \in draws : BaseChangeDraw(g)

\* The while loop is left: debug_assert_eq! on the order, and set_base
\* returns.
BaseChangeDone ==
    /\ pc = "bc_loop"
    /\ ~(Order(chain) < Order(old_chain))
    /\ pc' = IF debug_assertions /\ Order(chain) # Order(old_chain)
             THEN "bc_panicked" ELSE "bc_returned"
    /\ UNCHANGED <<chain, draws, baseChangeIdle>>

NextBaseChange == SetBase \/ BaseChangeStep \/ BaseChangeDone

SpecBaseChange == InitBaseChange /\ [][NextBaseChange]_vars

\* C7: once set_base has returned, the new chain has one record per point
\* of the new base, in its order, its order is the order of the input
\* chain, and every strong generator of the input chain sifts through it
\* to the identity.
BaseChangeCorrect ==
    pc = "bc_returned" =>
        /\ BaseOf(chain) = new_base
        /\ Order(chain) = Order(old_chain)
        /\ \A i \in 1 .. Len(StrongGeneratingSet(old_chain)) :
             LET res == ResidueWithDropout(chain, StrongGeneratingSet(old_chain)[i])
             IN  IsId(res.g) /\ res.i = Len(chain)

\* C7 witness: set_base has returned a chain for a base that differs from
\* the old one in its first point, with three or more records that hold
\* generators, of the order of the input chain.
BaseChangeCorrectWitness ==
    /\ pc = "bc_returned"
    /\ Len(old_chain) >= 3
    /\ BaseOf(chain) = new_base
    /\ new_base[1] # old_chain[1].base
    /\ \A i \in 1 .. 3 : chain[i].gens # <<>>
    /\ Order(chain) = Order(old_chain)
    /\ Order(chain) > NPoints

\* C8 (as claimed): whenever the new base repeats a point or omits a point
\* of the base of the input chain, set_base aborts and no record of the
\* new chain is ever created.
SetBaseFailsFast ==
    ~BaseAccepted(old_chain, new_base) =>
        /\ pc \in {"set_base", "bc_panicked"}
        /\ chain = <<>>

\* C8 witness: in a build that keeps debug_assert!, set_base has aborted
\* on a base that repeats a point, with no record created.
SetBaseFailsFastWitness ==
    /\ debug_assertions
    /\ pc = "bc_panicked"
    /\ Cardinality(SeqSet(new_base)) < Len(new_base)
    /\ chain = <<>>

(***************************************************************************)
(* Both builders on one group, as the integration tests run them: the IFT  *)
(* builder first, its chain kept in old_chain, then the randomized builder *)
(* on the same generators.                                                 *)
(***************************************************************************)
InitBuilders ==
    /\ group \in RandomGenLists
    /\ selector \in Selectors
    /\ hashOrder \in HashOrders
    /\ gen_idx = 0
    /\ chain = <<>>
    /\ current_pos = 0
    /\ pc = "set_generators"
    /\ RandomIdle

\* The chain of the IFT builder is kept and a randomized builder is
\* created and given the same generators.
StartRandom ==
    /\ pc = "built"
    /\ old_chain' = chain
    /\ chain' = <<>>
    /\ current_pos' = 0
    /\ \E prm \in ParamChoices : \E known \in BOOLEAN :
         constants' = [prm EXCEPT !.order =
                           IF known THEN Some(Cardinality(Generated(SeqSet(group)))) ELSE None]
    /\ pc' = "construct"
    /\ UNCHANGED <<group, gen_idx, selector, hashOrder, n, base, up_to_date, snap, subproducts,
                   cand_idx, g_word, all_discarded, b_star, stack, new_base,
                   debug_assertions, rand_perm, initial_runs, returned, cubeVars, calls, draws>>

NextBuilders == Next \/ StartRandom \/ NextRandom

SpecBuilders == InitBuilders /\ [][NextBuilders]_vars

\* C10: for the empty generator list the chain the IFT builder builds and
\* the chain the randomized builder returns both have no record, and
\* their order is 1.
TrivialGroupEmptyChain ==
    group = <<>> =>
        /\ pc = "built" => chain = <<>> /\ Order(chain) = 1
        /\ pc = "returned" =>
              /\ old_chain = <<>> /\ Order(old_chain) = 1
              /\ chain = <<>> /\ Order(chain) = 1

\* C10 witness: both builders have finished on the empty generator list.
TrivialGroupWitness ==
    /\ group = <<>>
    /\ pc = "returned"
    /\ gen_idx = 0
    /\ Len(old_chain) = 0
    /\ Len(chain) = 0
    /\ Order(chain) = 1

(***************************************************************************)
(* Further properties of the IFT builder.                                  *)
(***************************************************************************)
\* Permutation::order: the least k >= 1 with p^k the identity.
RECURSIVE OrderWalk(_, _, _)
OrderWalk(p, acc, k) == IF IsId(acc) THEN k ELSE OrderWalk(p, Mul(acc, p), k + 1)

PermOrder(p) == OrderWalk(p, p, 1)

\* p is one cycle through two or more points and fixes the other points.
IsSingleCycle(p) == ~IsId(p) /\ Cardinality(Moved(p)) = PermOrder(p)

OrbitSize(record) == Cardinality(DOMAIN record.transversal)

\* C11 (as claimed): for a single generator g of order n the built chain
\* has exactly one record and its orbit has exactly n points.
IftSingleGeneratorOneRecord ==
    (pc = "built" /\ Len(group) = 1) =>
        /\ Len(chain) = 1
        /\ OrbitSize(chain[1]) = PermOrder(group[1])

\* C11 (amended): for a single generator g that is one cycle of length
\* n >= 2 the built chain has exactly one record and its orbit has
\* exactly n points.
IftSingleCycleOneRecord ==
    (pc = "built" /\ Len(group) = 1 /\ IsSingleCycle(group[1])) =>
        /\ Len(chain) = 1
        /\ OrbitSize(chain[1]) = PermOrder(group[1])

\* C11 witness: the chain built from one cycle through all the points has
\* one record whose orbit is all the points.
IftSingleCycleWitness ==
    /\ pc = "built"
    /\ Len(group) = 1
    /\ IsSingleCycle(group[1])
    /\ PermOrder(group[1]) = NPoints
    /\ Len(chain) = 1
    /\ DOMAIN chain[1].transversal = Points

RECURSIVE Factorial(_)
Factorial(k) == IF k <= 1 THEN 1 ELSE k * Factorial(k - 1)

\* The points some element of the set S of permutations moves.
Support(S) == UNION {Moved(q) : q \in S}

\* S is the full symmetric group on its support, of two or more points.
IsSymmetricGroup(S) ==
    /\ Cardinality(Support(S)) >= 2
    /\ Cardinality(S) = Factorial(Cardinality(Support(S)))

\* C12: when the generators generate the full symmetric group on n >= 2
\* points, the built chain has exactly n-1 records and their orbit sizes
\* are n, n-1, ..., 2 from level 0 downward.
IftSymmetricOrbits ==
    (pc = "built" /\ IsSymmetricGroup(G)) =>
        LET deg == Cardinality(Support(G))
        IN  /\ Len(chain) = deg - 1
            /\ \A i \in 1 .. Len(chain) : OrbitSize(chain[i]) = deg + 1 - i

\* C12 witness: the chain built for the symmetric group on all the points
\* from two generators has NPoints-1 records with orbits of NPoints down to
\* 2 points.
IftSymmetricWitness ==
    /\ pc = "built"
    /\ Len(group) = 2
    /\ G = Perms
    /\ Len(chain) = NPoints - 1
    /\ \A i \in 1 .. Len(chain) : OrbitSize(chain[i]) = NPoints + 1 - i

\* ---------------------------------------------------------------------
\* Two runs of the IFT builder on the same input
\* ---------------------------------------------------------------------

\* A map made by a process with a randomly seeded hasher: the iteration
\* order of a second run need not be that of the first.
FreshlySeededHasher(h) == CHOOSE o \in HashOrders : o # h

\* BuildHasherDefault<DefaultHasher>: every DetHashMap and DetHashSet
\* hashes with the same fixed keys, so a second run iterates as the first.
DetHasher(h) == h

\* The chain of the first run is kept aside with its order and a second
\* builder is constructed for the same generators, selector and action.
RunAgain ==
    /\ pc = "built"
    /\ returned = None
    /\ old_chain' = chain
    /\ returned' = Some(Order(chain))
    /\ hashOrder' = DetHasher(hashOrder)
    /\ chain' = <<>>
    /\ current_pos' = 0
    /\ gen_idx' = 0
    /\ pc' = "set_generators"
    /\ UNCHANGED <<group, selector>>
    /\ UNCHANGED <<n, base, up_to_date, constants, snap, subproducts,
                   cand_idx, g_word, all_discarded, b_star, stack>>
    /\ UNCHANGED <<new_base, debug_assertions, rand_perm, initial_runs, cubeVars, calls, draws>>

NextTwoRuns == Next \/ RunAgain

SpecTwoRuns == Init /\ [][NextTwoRuns]_vars

\* The orbit (transversal domain) of every record of c, level by level.
OrbitsOf(c) == [i \in 1 .. Len(c) |-> DOMAIN c[i].transversal]

SetIter(S) == IF hashOrder = "asc" THEN SortAsc(S) ELSE SortDesc(S)

RECURSIVE CubeInner(_, _, _)

\* Mutant of CubeInner: a new point gets the depth of j, not one more.
CubeInnerKeepsDepth(p, prev, st) ==
    IF prev = <<>> THEN st
    ELSE LET j == Head(prev)
             val == Apply(p, j)
             st1 == IF val \in DOMAIN st.orbit
                    THEN [st EXCEPT !.temp = @ \cup {val}]
                    ELSE [orbit |-> Insert(st.orbit, val, Inv(p)),
                          depth |-> Insert(st.depth, val, st.depth[j]),
                          temp  |-> st.temp \cup {val}]
             p_inv == Inv(p)
             val2 == Apply(p_inv, j)
             st2 == IF val2 \in DOMAIN st1.orbit
                    THEN [st1 EXCEPT !.temp = @ \cup {val2}]
                    ELSE [orbit |-> Insert(st1.orbit, val2, p),
                          depth |-> Insert(st1.depth, val2, st1.depth[j]),
                          temp  |-> st1.temp \cup {val2}]
         IN  CubeInner(p, Tail(prev), st2)

\* Mutant of CubeInner: the entry for p(j) is p itself, not its inverse.
CubeInnerStoresP(p, prev, st) ==
    IF prev = <<>> THEN st
    ELSE LET j == Head(prev)
             val == Apply(p, j)
             st1 == IF val \in DOMAIN st.orbit
                    THEN [st EXCEPT !.temp = @ \cup {val}]
                    ELSE [orbit |-> Insert(st.orbit, val, p),
                          depth |-> Insert(st.depth, val, st.depth[j] + 1),
                          temp  |-> st.temp \cup {val}]
             p_inv == Inv(p)
             val2 == Apply(p_inv, j)
             st2 == IF val2 \in DOMAIN st1.orbit
                    THEN [st1 EXCEPT !.temp = @ \cup {val2}]
                    ELSE [orbit |-> Insert(st1.orbit, val2, p),
                          depth |-> Insert(st1.depth, val2, st1.depth[j] + 1),
                          temp  |-> st1.temp \cup {val2}]
         IN  CubeInner(p, Tail(prev), st2)

\* The inner loop of Cube::new over the points j of the previous cube: the
\* image of j under p is entered with p.inv() and the image under p.inv()
\* with p, each only when it is not yet a key, one deeper than j.
CubeInner(p, prev, st) ==
    IF prev = <<>> THEN st
    ELSE LET j == Head(prev)
             val == Apply(p, j)
             st1 == IF val \in DOMAIN st.orbit
                    THEN [st EXCEPT !.temp = @ \cup {val}]
                    ELSE [orbit |-> Insert(st.orbit, val, Inv(p)),
                          depth |-> Insert(st.depth, val, st.depth[j] + 1),
                          temp  |-> st.temp \cup {val}]
             p_inv == Inv(p)
             val2 == Apply(p_inv, j)
             st2 == IF val2 \in DOMAIN st1.orbit
                    THEN [st1 EXCEPT !.temp = @ \cup {val2}]
                    ELSE [orbit |-> Insert(st1.orbit, val2, p),
                          depth |-> Insert(st1.depth, val2, st1.depth[j] + 1),
                          temp  |-> st1.temp \cup {val2}]
         IN  CubeInner(p, Tail(prev), st2)

\* The outer loop of Cube::new over seq, from its i-th permutation on;
\* last is cubes.last(). It stops early when the orbit has orbit_size keys.
RECURSIVE CubeOuter(_, _, _, _, _, _)
CubeOuter(seq, i, orbit, depth, last, size) ==
    IF i > Len(seq) THEN [cube |-> last, orbit |-> orbit, depth |-> depth]
    ELSE LET st == CubeInner(seq[i], SetIter(last),
                             [orbit |-> orbit, depth |-> depth, temp |-> {}])
             temp == st.temp \cup last
         IN  IF Some(Cardinality(DOMAIN st.orbit)) = size
             THEN [cube |-> temp, orbit |-> st.orbit, depth |-> st.depth]
             ELSE CubeOuter(seq, i + 1, st.orbit, st.depth, temp, size)

\* Cube::new(base, seq, strat, orbit_size).
CubeNew(b, seq, size) ==
    CubeOuter(seq, 1, Insert(EmptyMap, b, Id), Insert(EmptyMap, b, 0), {b}, size)

\* The sequences handed to Cube::new: the generator lists, and the lists
\* of three adjacent transpositions.
CubeSeqs ==
    LET adjacent == {Transposition(i, i + 1) : i \in 0 .. NPoints - 2}
    IN  GenLists \cup {<<a, b, c>> : a \in adjacent, b \in adjacent, c \in adjacent}

InitCube ==
    /\ group \in CubeSeqs
    /\ hashOrder \in HashOrders
    /\ cube_base \in Points
    /\ orbit_size \in {None} \cup {Some(k) : k \in 1 .. NPoints}
    /\ cube = [cube |-> {}, orbit |-> EmptyMap, depth |-> EmptyMap]
    /\ selector = "lmp"
    /\ gen_idx = 0
    /\ chain = <<>>
    /\ current_pos = 0
    /\ n = 0
    /\ base = <<>>
    /\ up_to_date = 1
    /\ constants = [order |-> None]
    /\ snap = <<>>
    /\ subproducts = <<>>
    /\ cand_idx = 0
    /\ g_word = <<>>
    /\ all_discarded = TRUE
    /\ b_star = 0
    /\ stack = <<>>
    /\ old_chain = <<>>
    /\ new_base = <<>>
    /\ debug_assertions = TRUE
    /\ rand_perm = [size |-> 0, gen_elements |-> <<>>, accum |-> Id]
    /\ initial_runs = 0
    /\ returned = None
    /\ calls = <<>>
    /\ draws = {}
    /\ pc = "cube_new"

\* One call of Cube::new.
CubeNewCall ==
    /\ pc = "cube_new"
    /\ cube' = CubeNew(cube_base, group, orbit_size)
    /\ pc' = "cube_made"
    /\ UNCHANGED <<group, gen_idx, chain, current_pos, selector, hashOrder,
                   n, base, up_to_date, constants, snap, subproducts, cand_idx,
                   g_word, all_discarded, b_star, stack, old_chain, new_base,
                   debug_assertions, rand_perm, initial_runs, returned,
                   cube_base, orbit_size, calls, draws>>

NextCube == CubeNewCall

SpecCube == InitCube /\ [][NextCube]_vars

\* C14: for every key alpha of the orbit map Cube::new built, the walk of
\* representative_raw from alpha back to the base yields a permutation
\* that maps the base to alpha.
CubeRepresentatives ==
    pc = "cube_made" =>
        \A alpha \in DOMAIN cube.orbit :
            LET r == RepresentativeRaw(cube.orbit, cube_base, alpha)
            IN  r.some /\ Apply(r.val, cube_base) = alpha

\* C14 witness: a cube with a point three steps from the base, whose
\* representative maps the base to it.
CubeRepresentativesWitness ==
    /\ pc = "cube_made"
    /\ \E alpha \in DOMAIN cube.orbit :
         /\ cube.depth[alpha] = 3
         /\ LET r == RepresentativeRaw(cube.orbit, cube_base, alpha)
            IN  r.some /\ Apply(r.val, cube_base) = alpha

\* ---------------------------------------------------------------------
\* extend_inner step by step, and its termination
\* ---------------------------------------------------------------------
\* Every active call of extend_inner is a frame of calls holding the
\* call's level, its argument p, its position and its locals.  The chain
\* is the builder's field, written by whichever call runs.

NoRecord == Record(0, <<>>, EmptyMap)

\* The frame of a call of extend_inner(p) at level pos that has not run yet.
Frame(pos, p) ==
    [pos |-> pos, p |-> p, at |-> "entry", record |-> NoRecord,
     to_check |-> <<>>, new_transversal |-> EmptyMap,
     orbit_element |-> 0, orbit_element_repr |-> Id, gi |-> 0]

Top == calls[Len(calls)]

\* The innermost call goes on as frame f.
Continue(f) == [calls EXCEPT ![Len(calls)] = f]

\* The innermost call goes on as frame f after extend_lower_level(q).
CallLower(f, q) == Append(Continue(f), Frame(f.pos + 1, q))

\* The innermost call returns.
Return == SubSeq(calls, 1, Len(calls) - 1)

\* pc and current_pos once the active calls are cs.
Resume(cs) ==
    /\ pc' = IF cs = <<>> THEN "set_generators" ELSE "extend_inner"
    /\ current_pos' = IF cs = <<>> THEN 0 ELSE cs[Len(cs)].pos

stepsIdle == <<group, selector, hashOrder, n, base, up_to_date, constants, snap,
               subproducts, cand_idx, g_word, all_discarded, b_star, stack,
               old_chain, new_base, debug_assertions, rand_perm, initial_runs,
               returned, cubeVars, draws>>

\* The generator lists the step-by-step builder is run on.
StepGenLists == GenLists

InitSteps ==
    /\ group \in StepGenLists
    /\ selector \in Selectors
    /\ hashOrder \in HashOrders
    /\ gen_idx = 0
    /\ chain = <<>>
    /\ current_pos = 0
    /\ pc = "set_generators"
    /\ RandomIdle

\* set_generators calls extend_inner with the next generator.
CallExtendInner ==
    /\ pc = "set_generators"
    /\ gen_idx < Len(group)
    /\ calls' = <<Frame(0, group[gen_idx + 1])>>
    /\ gen_idx' = gen_idx + 1
    /\ pc' = "extend_inner"
    /\ UNCHANGED <<chain, current_pos, stepsIdle>>

\* The head of extend_inner: the membership test and early return; at the
\* bottom the new record, pushed, and the call one level down; otherwise
\* the record is cloned and the first work list filled.
ExtendInnerEntry ==
    /\ pc = "extend_inner"
    /\ Top.at = "entry"
    /\ IF IsInGroup(chain, Top.pos, Top.p)
       THEN /\ calls' = Return
            /\ chain' = chain
       ELSE IF BottomOfTheChain(chain, Top.pos)
       THEN LET moved_point == MovedPoint(selector, Top.p)
                w == BottomWalk(Top.p, moved_point, Apply(Top.p, moved_point),
                                Insert(EmptyMap, moved_point, Id), Top.p)
                record == Record(moved_point, <<Top.p>>, w.transversal)
            IN  /\ chain' = Append(chain, record)
                /\ calls' = CallLower([Top EXCEPT !.at = "bottom_return"],
                                      w.representative)
       ELSE /\ calls' = Continue([Top EXCEPT
                            !.at = "first_loop",
                            !.record = chain[Top.pos + 1],
                            !.to_check = Keys(chain[Top.pos + 1].transversal),
                            !.new_transversal = EmptyMap])
            /\ chain' = chain
    /\ Resume(calls')
    /\ UNCHANGED <<gen_idx, stepsIdle>>

\* The bottom case returns after its call one level down.
BottomReturn ==
    /\ pc = "extend_inner"
    /\ Top.at = "bottom_return"
    /\ calls' = Return
    /\ Resume(calls')
    /\ UNCHANGED <<chain, gen_idx, stepsIdle>>

\* One turn of the first while loop, or its exit: the staged points become
\* the second work list and are added to the record's transversal.
FirstLoopStep ==
    /\ pc = "extend_inner"
    /\ Top.at = "first_loop"
    /\ IF Top.to_check = <<>>
       THEN calls' = Continue([Top EXCEPT
                        !.at = "second_loop",
                        !.to_check = Keys(Top.new_transversal),
                        !.record = [Top.record EXCEPT
                                        !.transversal = Extend(@, Top.new_transversal)]])
       ELSE LET record == Top.record
                orbit_element == Top.to_check[Len(Top.to_check)]
                rest == SubSeq(Top.to_check, 1, Len(Top.to_check) - 1)
                orbit_element_repr ==
                    RepresentativeRaw(record.transversal, record.base, orbit_element).val
                new_image == Apply(Top.p, orbit_element)
            IN  IF \/ new_image \in DOMAIN record.transversal
                   \/ new_image \in DOMAIN Top.new_transversal
                THEN LET r1 == RepresentativeRaw(record.transversal, record.base, new_image)
                         image_repr ==
                             IF r1.some THEN r1.val
                             ELSE RepresentativeRaw(Top.new_transversal, record.base,
                                                    new_image).val
                         new_perm == Mul(Mul(orbit_element_repr, Top.p), Inv(image_repr))
                     IN  calls' = CallLower([Top EXCEPT !.to_check = rest], new_perm)
                ELSE calls' = Continue([Top EXCEPT
                                 !.to_check = rest,
                                 !.new_transversal = Insert(@, new_image, Inv(Top.p))])
    /\ Resume(calls')
    /\ UNCHANGED <<chain, gen_idx, stepsIdle>>

\* One turn of the second while loop up to its for loop, or its exit: p is
\* put in front of the record's generators, the record is stored in the
\* chain and the call returns.
SecondLoopStep ==
    /\ pc = "extend_inner"
    /\ Top.at = "second_loop"
    /\ IF Top.to_check = <<>>
       THEN /\ chain' = [chain EXCEPT ![Top.pos + 1] =
                             [Top.record EXCEPT !.gens = <<Top.p>> \o @]]
            /\ calls' = Return
       ELSE LET orbit_element == Top.to_check[Len(Top.to_check)]
            IN  /\ calls' = Continue([Top EXCEPT
                                !.at = "generator_loop",
                                !.to_check = SubSeq(@, 1, Len(@) - 1),
                                !.orbit_element = orbit_element,
                                !.orbit_element_repr =
                                    RepresentativeRaw(Top.record.transversal,
                                                      Top.record.base, orbit_element).val,
                                !.gi = 1])
                /\ chain' = chain
    /\ Resume(calls')
    /\ UNCHANGED <<gen_idx, stepsIdle>>

\* Mutant of GeneratorLoopStep: the for loop does not move past a generator
\* whose image is already in the transversal.
GeneratorLoopStepStaysOnKnown ==
    /\ pc = "extend_inner"
    /\ Top.at = "generator_loop"
    /\ LET record == Top.record
           gens == <<Top.p>> \o record.gens
       IN  IF Top.gi > Len(gens)
           THEN calls' = Continue([Top EXCEPT !.at = "second_loop"])
           ELSE LET generator == gens[Top.gi]
                    new_image == Apply(generator, Top.orbit_element)
                IN  IF new_image \in DOMAIN record.transversal
                    THEN LET image_repr ==
                                 RepresentativeRaw(record.transversal, record.base,
                                                   new_image).val
                             new_perm == Mul(Mul(Top.orbit_element_repr, generator),
                                             Inv(image_repr))
                         IN  calls' = CallLower(Top, new_perm)
                    ELSE calls' = Continue([Top EXCEPT
                                     !.record = [record EXCEPT !.transversal =
                                                     Insert(@, new_image, Inv(generator))],
                                     !.to_check = Append(@, new_image),
                                     !.gi = @ + 1])
    /\ Resume(calls')
    /\ UNCHANGED <<chain, gen_idx, stepsIdle>>

\* One turn of the for loop over once(p).chain(record.gens), or its exit.
GeneratorLoopStep ==
    /\ pc = "extend_inner"
    /\ Top.at = "generator_loop"
    /\ LET record == Top.record
           gens == <<Top.p>> \o record.gens
       IN  IF Top.gi > Len(gens)
           THEN calls' = Continue([Top EXCEPT !.at = "second_loop"])
           ELSE LET generator == gens[Top.gi]
                    new_image == Apply(generator, Top.orbit_element)
                IN  IF new_image \in DOMAIN record.transversal
                    THEN LET image_repr ==
                                 RepresentativeRaw(record.transversal, record.base,
                                                   new_image).val
                             new_perm == Mul(Mul(Top.orbit_element_repr, generator),
                                             Inv(image_repr))
                         IN  calls' = CallLower([Top EXCEPT !.gi = @ + 1], new_perm)
                    ELSE calls' = Continue([Top EXCEPT
                                     !.record = [record EXCEPT !.transversal =
                                                     Insert(@, new_image, Inv(generator))],
                                     !.to_check = Append(@, new_image),
                                     !.gi = @ + 1])
    /\ Resume(calls')
    /\ UNCHANGED <<chain, gen_idx, stepsIdle>>

NextSteps ==
    \/ CallExtendInner
    \/ ExtendInnerEntry
    \/ BottomReturn
    \/ FirstLoopStep
    \/ SecondLoopStep
    \/ GeneratorLoopStep
    \/ Build

\* The safety part: what the steps can do.
SpecSteps == InitSteps /\ [][NextSteps]_vars

\* The builder is one sequential thread: while it has a step to take, it
\* takes one.
SpecStepsFair == SpecSteps /\ WF_vars(NextSteps)

\* Whenever set_generators is between two calls, the steps have left the
\* chain that ExtendInner computes for the generators absorbed so far.
StepsAgreeWithExtendInner ==
    pc \in {"set_generators", "built"} => chain = IftChain(selector, group, gen_idx)

\* C15: for every finite generator list set_generators terminates: every
\* call of extend_inner returns, through all its calls one level down and
\* its two work lists, and the builder ends built.
IftTerminates == <>(pc = "built")

\* C15 witness: the builder ended after absorbing MaxGens generators, and
\* the chain has records below the top one.
IftTerminatesWitness ==
    /\ pc = "built"
    /\ gen_idx = MaxGens
    /\ Len(chain) >= 2
    /\ calls = <<>>
    /\ draws = {}

\* ---------------------------------------------------------------------
\* Further properties of RandPerm
\* ---------------------------------------------------------------------

\* A step that is one call of random_permutation that returned: a turn of
\* the warm-up loop of new, or a call by the owner.
IsRandomPermutationCall ==
    \/ pc = "rp_new" /\ pc' = "rp_new" /\ initial_runs' = initial_runs - 1
    \/ pc = "rp_ready" /\ pc' = "rp_ready"

\* What the call did, for some s # t, e and side: entry s of the slate is
\* the product on the drawn side, the accumulator is multiplied by the new
\* entry on the same side, everything else of the slate is as before and
\* the returned value is the new accumulator.
SlateFrameEffect ==
    LET slate == rand_perm.gen_elements
    IN  \E s \in 1 .. Len(slate) : \E t \in (1 .. Len(slate)) \ {s} :
        \E e \in {1, 0 - 1} : \E right \in BOOLEAN :
            LET te == Pow(slate[t], e)
                entry == IF right THEN Mul(slate[s], te) ELSE Mul(te, slate[s])
            IN  /\ rand_perm'.gen_elements = [slate EXCEPT ![s] = entry]
                /\ rand_perm'.accum = IF right THEN Mul(rand_perm.accum, entry)
                                      ELSE Mul(entry, rand_perm.accum)
                /\ rand_perm'.size = rand_perm.size
                /\ returned' = Some(rand_perm'.accum)

\* C16: one call of random_permutation with the drawn s # t, e and side
\* writes slate entry s only: slate[s]*slate[t]^e with accum*(new entry) on
\* the right side, slate[t]^e*slate[s] with (new entry)*accum on the left;
\* every other entry and the length of the slate stay, and the call returns
\* the new accumulator.
RandomPermutationFrame == [][IsRandomPermutationCall => SlateFrameEffect]_vars

\* C16 witness: after calls on a slate of MaxMinSize entries an entry is a
\* product that is none of the generators, and the value returned is the
\* accumulator, not the identity.
RandomPermutationFrameWitness ==
    /\ pc = "rp_ready"
    /\ returned = Some(rand_perm.accum)
    /\ ~IsId(rand_perm.accum)
    /\ Len(rand_perm.gen_elements) = MaxMinSize
    /\ \E i \in 1 .. Len(rand_perm.gen_elements) :
           rand_perm.gen_elements[i] \notin SeqSet(group)

\* C17: for every min_size, generator list and initial_runs the slate holds
\* at least two entries, so the loop of random_permutation that redraws t
\* until t # s ends and every call returns.
RandPermAlwaysReturns ==
    /\ Len(rand_perm.gen_elements) >= 2
    /\ rand_perm.size >= 2
    /\ pc # "rp_spin"

\* C17: a RandPerm whose slate has a single entry is inside
\* random_permutation, where t is redrawn from 0..1 for ever.
RandPermSpinsWitness ==
    /\ pc = "rp_spin"
    /\ rand_perm.size = 1
    /\ Len(rand_perm.gen_elements) = 1

\* C18: after construction and after any number of calls of
\* random_permutation the slate generates exactly the group the input
\* generators generate.
SlateGeneratesGroup ==
    Generated(SeqSet(rand_perm.gen_elements)) = Generated(SeqSet(group))

\* C18 witness: after calls on the generators of the symmetric group the
\* slate holds a permutation that is no generator, and still generates the
\* whole group.
SlateGeneratesGroupWitness ==
    /\ pc = "rp_ready"
    /\ returned # None
    /\ group = SymmetricGens
    /\ \E i \in 1 .. Len(rand_perm.gen_elements) :
           rand_perm.gen_elements[i] \notin SeqSet(group)
    /\ Generated(SeqSet(rand_perm.gen_elements)) = Perms

\* ---------------------------------------------------------------------
\* Further properties of the random base change
\* ---------------------------------------------------------------------

\* C19: all through random_base_change the order of the new chain is at
\* most the order of the input chain, every generator stored at level i
\* fixes the new base points before level i and none is the identity
\* (update_schrier_tree is never handed the identity, so its debug_assert
\* never fails); when the loop is left the orders are equal and the closing
\* debug_assert_eq holds: the only panic is that of set_base on a base it
\* rejects.
BaseChangeLoopInvariant ==
    /\ pc \in {"bc_loop", "bc_returned"} =>
          /\ Order(chain) <= Order(old_chain)
          /\ \A i \in 1 .. Len(chain) : \A k \in 1 .. Len(chain[i].gens) :
                /\ ~IsId(chain[i].gens[k])
                /\ \A j \in 1 .. (i - 1) :
                      Apply(chain[i].gens[k], new_base[j]) = new_base[j]
    /\ pc = "bc_returned" => Order(chain) = Order(old_chain)
    /\ pc = "bc_panicked" =>
          /\ chain = <<>>
          /\ debug_assertions
          /\ ~BaseAccepted(old_chain, new_base)

\* C19 witness: the base change of the symmetric group has returned with
\* the order of the input chain, and a record below the top one holds a
\* generator that fixes the base points above it.
BaseChangeLoopWitness ==
    /\ pc = "bc_returned"
    /\ group = SymmetricGens
    /\ Order(chain) = Order(old_chain)
    /\ \E i \in 2 .. Len(chain) :
          /\ chain[i].gens # <<>>
          /\ \A k \in 1 .. Len(chain[i].gens) : \A j \in 1 .. (i - 1) :
                Apply(chain[i].gens[k], new_base[j]) = new_base[j]

\* The base change of the chain of a small group, built with the largest
\* moved point selector, to a base that set_base accepts.
InitBaseChangeValid ==
    /\ InitBaseChange
    /\ group \in RandomGenLists
    /\ selector = "lmp"
    /\ hashOrder = "asc"
    /\ BaseAccepted(old_chain, new_base)

\* set_base runs in one thread, so a step it can take is taken; and the
\* draws are fair: every element of the group keeps being drawn, so while
\* there are elements whose draw changes the chain, one of them is drawn.
SpecBaseChangeFair ==
    /\ InitBaseChangeValid
    /\ [][NextBaseChange]_vars
    /\ WF_vars(SetBase)
    /\ WF_vars(BaseChangeStep)
    /\ WF_vars(BaseChangeDone)

\* A turn of the loop: at no level does the orbit lose a point, and at a
\* level that was given a generator (the level the residue dropped out at)
\* the orbit has gained one.
OrbitsOnlyGrow ==
    (pc = "bc_loop" /\ pc' = "bc_loop") =>
        \A i \in 1 .. Len(chain) :
            /\ DOMAIN chain[i].transversal \subseteq DOMAIN chain'[i].transversal
            /\ chain'[i].gens # chain[i].gens =>
                   DOMAIN chain'[i].transversal # DOMAIN chain[i].transversal

\* C20: for a valid new base and fair draws the loop of random_base_change
\* reaches the order of the input chain and set_base returns; a draw whose
\* residue drops out at a level strictly enlarges the orbit of that level,
\* and no draw shrinks an orbit.
BaseChangeTerminates ==
    /\ <>(pc = "bc_returned" /\ Order(chain) = Order(old_chain))
    /\ [][OrbitsOnlyGrow]_vars

\* C20 witness: the base change of a group of two generators to a base of
\* all the points has returned with the order of the input chain, two
\* levels having gained orbit points from draws that dropped out there.
BaseChangeTerminatesWitness ==
    /\ pc = "bc_returned"
    /\ Len(group) = 2
    /\ Len(new_base) = NPoints
    /\ Order(chain) = Order(old_chain)
    /\ \E i \in 1 .. Len(chain) : \E j \in (i + 1) .. Len(chain) :
          /\ chain[i].gens # <<>>
          /\ chain[j].gens # <<>>
          /\ Cardinality(DOMAIN chain[i].transversal) > 1
          /\ Cardinality(DOMAIN chain[j].transversal) > 1

\* ---------------------------------------------------------------------
\* The bottom case of extend_inner
\* ---------------------------------------------------------------------

\* The cycle of p through the point b.
CycleThrough(p, b) == {Apply(PowNat(p, k), b) : k \in 0 .. NPoints}

\* The running call is at the head of extend_inner, at the bottom of the
\* chain, with a permutation that is not in the group of its sub-chain.
AtBottomWithNewPermutation ==
    /\ pc = "extend_inner"
    /\ Top.at = "entry"
    /\ Top.pos = Len(chain)
    /\ ~IsInGroup(chain, Top.pos, Top.p)

\* What the bottom case leaves: one more record, with the selector's moved
\* point of p as base, p as its only generator, the base mapped to the
\* identity and the other points of the cycle of p through the base mapped
\* to the inverse of p; and a call one level down with p to the length of
\* that cycle, which fixes the base.
BottomRecordPushed ==
    LET p == Top.p
        b == IF selector = "lmp" THEN SetMax(Moved(p)) ELSE SetMin(Moved(p))
        cyc == CycleThrough(p, b)
        record == chain'[Len(chain')]
        lower == calls'[Len(calls')]
    IN  /\ Len(chain') = Len(chain) + 1
        /\ SubSeq(chain', 1, Len(chain)) = chain
        /\ record.base = b
        /\ record.gens = <<p>>
        /\ DOMAIN record.transversal = cyc
        /\ \A x \in cyc : record.transversal[x] = IF x = b THEN Id ELSE Inv(p)
        /\ Len(calls') = Len(calls) + 1
        /\ lower.at = "entry"
        /\ lower.pos = Top.pos + 1
        /\ lower.p = PowNat(p, Cardinality(cyc))
        /\ Apply(lower.p, b) = b

\* C21: when extend_inner absorbs at the bottom of the chain a permutation
\* p that is not in the group of its sub-chain, it pushes a record with
\* base the selector's moved point b of p, generators [p] and transversal
\* b -> identity, every other point of the cycle of p through b -> p
\* inverse, and passes p^L to the next level, L the length of that cycle;
\* p^L fixes b.
IftBottomRecord == [][AtBottomWithNewPermutation => BottomRecordPushed]_vars

\* C21 witness: the bottom case has just pushed a record below the top
\* one, whose orbit is a cycle of three points or more, and the call one
\* level down has not run yet.
IftBottomRecordWitness ==
    /\ pc = "extend_inner"
    /\ Len(calls) >= 2
    /\ Top.at = "entry"
    /\ calls[Len(calls) - 1].at = "bottom_return"
    /\ Len(chain) >= 2
    /\ Top.pos = Len(chain)
    /\ LET record == chain[Len(chain)]
       IN  /\ record.gens = <<calls[Len(calls) - 1].p>>
           /\ Cardinality(DOMAIN record.transversal) >= 3
           /\ record.transversal[record.base] = Id
           /\ Apply(Top.p, record.base) = record.base

(***************************************************************************)
(* The end of a pass of sgc.                                               *)
(***************************************************************************)

\* A step that ends the pass of sgc at level current_pos.
SgcPassEnds == pc = "sgc_loop" /\ pc' # "sgc_loop"

\* The pass is followed by sgc one level down.
SgcRecurses == pc' = "sgc" /\ current_pos' = current_pos + 1

\* The pass is followed by sgt, at the same level.
SgcTransitionsToSgt == pc' = "sgt" /\ current_pos' = current_pos

\* C22 as stated: at the end of a pass of sgc, current_pos advances and sgc
\* recurses only when some candidate was not discarded, up_to_date is
\* not 0 and current_pos is not the last level; in every other case, the one
\* where every candidate was discarded (up_to_date becomes current_pos)
\* included, sgt follows.
SgcRecursesOnlyAfterKeptCandidate ==
    [][SgcPassEnds =>
         /\ all_discarded => up_to_date' = current_pos
         /\ IF ~all_discarded /\ up_to_date' # 0 /\ current_pos # Len(chain) - 1
            THEN SgcRecurses
            ELSE SgcTransitionsToSgt]_vars

\* C22 amended: at the end of a pass of sgc, up_to_date becomes current_pos
\* when every candidate was discarded; then current_pos advances and sgc
\* recurses exactly when up_to_date is not 0 and current_pos is not the last
\* level, whether or not a candidate was kept, and sgt follows otherwise.
SgcRecursesWhileNotUpToDate ==
    [][SgcPassEnds =>
         /\ up_to_date' = IF all_discarded THEN current_pos ELSE up_to_date
         /\ IF up_to_date' # 0 /\ current_pos # Len(chain) - 1
            THEN SgcRecurses
            ELSE SgcTransitionsToSgt]_vars

\* C22 witness: sgc is about to run one level below a pass that discarded
\* every candidate (up_to_date is the level of that pass, which no other
\* way into sgc leaves behind).
SgcRecursesWitness ==
    /\ pc = "sgc"
    /\ current_pos >= 2
    /\ up_to_date = current_pos - 1
    /\ current_pos < Len(chain)

(***************************************************************************)
(* sgt with a known order.                                                 *)
(***************************************************************************)

\* sgt is entered with a known order that the chain already has.
SgtEntryAtKnownOrder ==
    pc = "sgt" /\ constants.order.some /\ Order(chain) = constants.order.val

\* The step is a return of sgt that changes no record.
SgtReturnsAtOnce ==
    /\ chain' = chain
    /\ base' = base
    /\ pc' \in {"returned", "sgt_check", "sgt_exit"}
    /\ Len(stack') <= Len(stack)

\* The step is the call of sgc that follows the products of sgt.
SgcRestarted == pc = "sgt_check" /\ pc' = "sgc"

\* C23: with a known order, sgt returns at once and changes no record when
\* the chain has that order on entry; after its products, sgc is called
\* again only if the order of the chain still differs from the known order
\* at that moment, and then with current_pos = 0.
SgtRestartsOnlyOnOrderMismatch ==
    [][/\ SgtEntryAtKnownOrder => SgtReturnsAtOnce
       /\ (SgcRestarted /\ constants.order.some) =>
              /\ Order(chain) # constants.order.val
              /\ current_pos' = 0]_vars

\* C23 witness: sgc has been called again by sgt although the chain has the
\* known order.
SgtRestartsAtKnownOrderWitness ==
    /\ pc = "sgc"
    /\ stack # <<>>
    /\ stack[Len(stack)].site = "after_restart"
    /\ constants.order.some
    /\ Order(chain) = constants.order.val

(***************************************************************************)
(* A product of sgt whose residue is not accepted.                         *)
(***************************************************************************)

\* A step of the loop of sgt in which sgt_test returns a level.
SgtProductFails == pc = "sgt_loop" /\ pc' = "sgc"

\* What the step does with the residue res of the product, h being the
\* collapsed residue.
SgtFailureHandled(res) ==
    LET h == CollapsePermWord(res.word)
        level == current_pos + res.level
    IN  IF level = Len(chain)
        THEN LET record == chain'[Len(chain')]
             IN  /\ Len(chain') = Len(chain) + 1
                 /\ SubSeq(chain', 1, Len(chain)) = chain
                 /\ record.gens = <<h>>
                 /\ Apply(h, record.base) # record.base
                 /\ record.base \notin SeqSet(base)
                 /\ base' = Append(base, record.base)
                 /\ current_pos' = Len(chain') - 1
        ELSE /\ level < Len(chain)
             /\ Len(chain') = Len(chain)
             /\ \A i \in 1 .. Len(chain) : i # level + 1 => chain'[i] = chain[i]
             /\ h \in SeqSet(chain'[level + 1].gens)
             /\ Apply(h, chain[level + 1].base) \notin DOMAIN chain[level + 1].transversal
             /\ Apply(h, chain[level + 1].base) \in DOMAIN chain'[level + 1].transversal
             /\ base' = base
             /\ current_pos' = level

\* C24: when the residue of a product of sgt is not accepted, either it
\* sifted through every level, and then a new bottom record is pushed whose
\* only generator is the collapsed residue and whose base point is moved by
\* it and is no base point yet, and sgc is entered at the index of the new
\* record; or the record at the drop-out level is augmented with the
\* collapsed residue and sgc is entered at the drop-out level.
SgtFailureReentersSgc ==
    [][SgtProductFails =>
         \E pw \in SgtProducts(cand_idx) :
            LET res == ResidueAsWordsFromWords(chain, current_pos, pw.gw)
            IN  /\ ~IsId(CollapsePermWord(res.word))
                /\ SgtFailureHandled(res)]_vars

\* C24 witness: sgc is about to run at a level below the top one where the
\* loop of sgt has just augmented a record that was there already.
SgtFailureReentersSgcWitness ==
    /\ pc = "sgc"
    /\ stack # <<>>
    /\ stack[Len(stack)].site = "after_fail"
    /\ current_pos >= 1
    /\ current_pos < Len(chain) - 1
    /\ up_to_date = current_pos + 1

\* A state the loop of sgt leaves after it pushed a new bottom record.
SgtFailurePushedWitness ==
    /\ pc = "sgc"
    /\ stack # <<>>
    /\ stack[Len(stack)].site = "after_fail"
    /\ current_pos = Len(chain) - 1
    /\ up_to_date = Len(base) + 1

(***************************************************************************)
(* The all-points test of sgt.                                             *)
(***************************************************************************)

\* The collapsed residue of the word gw through the whole chain.
SgtResidue(gw) == CollapsePermWord(ResidueAsWordsFromWords(chain, current_pos, gw).word)

\* The loop of sgt has a product left to test.
SgtTests ==
    /\ pc = "sgt_loop"
    /\ cand_idx < Len(snap[1].gens) + NumProducts(snap, constants.c3, constants.c4)

\* C25: in sgt the residue of a product is accepted (sgt_test returns None
\* and chain, base and up_to_date stay as they are) exactly when the
\* collapsed residue is the identity, although the test looks at the points
\* 0 .. n-1 only, n being symmetric_super_order - 1, the largest moved point.
SgtAcceptsExactlyIdentity ==
    [][SgtTests =>
         /\ n = SymmetricSuperOrder(group) - 1
         /\ \A pw \in SgtProducts(cand_idx) :
              IsTrivialResidue(ResidueAsWordsFromWords(chain, current_pos, pw.gw).word,
                               0 .. (n - 1))
                  <=> IsId(SgtResidue(pw.gw))
         /\ pc' = "sgt_loop" =>
              /\ \E pw \in SgtProducts(cand_idx) : IsId(SgtResidue(pw.gw))
              /\ UNCHANGED <<chain, base, up_to_date>>
         /\ pc' # "sgt_loop" =>
              /\ \E pw \in SgtProducts(cand_idx) : ~IsId(SgtResidue(pw.gw))
              /\ chain' # chain]_vars

\* C25 witness: a product of sgt has been accepted for a group that moves
\* the last point, which the test leaves out, on a chain of two records or
\* more.
SgtAcceptsWitness ==
    /\ pc = "sgt_loop"
    /\ cand_idx >= 1
    /\ n = NPoints - 1
    /\ Len(chain) >= 2
    /\ chain = snap

(***************************************************************************)
(* check_transversal_augmentation_at_level on its own: a chain of one or   *)
(* two records as the randomized builder makes them (each transversal is   *)
(* the whole orbit of the base point under the record's generators), a     *)
(* level and a permutation p.  The call is followed in two steps, the      *)
(* frame of the call in calls holding level, p and previous_pos; snap is   *)
(* the chain before the call.                                              *)
(***************************************************************************)

\* A record as construct_strong_generating_set, sgc and sgt_test push it.
CompleteRecord(b, gs) == Record(b, gs, FactoredTransversalCompleteOpt(gs, b))

\* The chains the call is made on.
AugmentChains ==
    LET tops == {<<CompleteRecord(MovedPoint(selector, gs[1]), gs)>> :
                    gs \in RandomGenLists \ {<<>>}}
    IN  tops \cup
        UNION {{Append(c, CompleteRecord(MovedPoint(selector, t), <<t>>)) :
                   t \in {q \in Perms : ~IsId(q) /\ Apply(q, c[1].base) = c[1].base}} :
               c \in tops}

InitAugment ==
    /\ selector \in Selectors
    /\ hashOrder \in HashOrders
    /\ chain \in AugmentChains
    /\ snap = chain
    /\ group = chain[1].gens
    /\ base = [i \in 1 .. Len(chain) |-> chain[i].base]
    /\ current_pos \in 0 .. (Len(chain) - 1)
    /\ calls = <<>>
    /\ pc = "augment"
    /\ gen_idx = 0
    /\ n = SymmetricSuperOrder(group) - 1
    /\ up_to_date = 1
    /\ constants = [order |-> None]
    /\ subproducts = <<>>
    /\ cand_idx = 0
    /\ g_word = <<>>
    /\ all_discarded = TRUE
    /\ b_star = 0
    /\ stack = <<>>
    /\ old_chain = <<>>
    /\ new_base = <<>>
    /\ debug_assertions = TRUE
    /\ rand_perm = [size |-> 0, gen_elements |-> <<>>, accum |-> Id]
    /\ initial_runs = 0
    /\ returned = None
    /\ CubeIdle
    /\ draws = {}

augmentIdle == <<group, gen_idx, selector, hashOrder, n, base, up_to_date, constants, snap,
                 subproducts, cand_idx, g_word, all_discarded, b_star, stack, otherVars>>

\* check_transversal_augmentation_at_level(level, p) up to its call of
\* check_transversal_augmentation: current_pos is saved and set to level.
AugmentAtLevelCall(level, p) ==
    /\ pc = "augment"
    /\ calls' = <<[at |-> "check_transversal_augmentation", level |-> level, p |-> p,
                   previous_pos |-> current_pos]>>
    /\ current_pos' = level
    /\ pc' = "augment_inner"
    /\ UNCHANGED <<group, gen_idx, chain, selector, hashOrder, n, base, up_to_date,
                   constants, snap, subproducts, cand_idx, g_word, all_discarded, b_star,
                   stack, old_chain, new_base, debug_assertions, rand_perm, initial_runs,
                   returned, cubeVars, draws>>

\* check_transversal_augmentation(p) on the record at current_pos, and the
\* last statement of check_transversal_augmentation_at_level.
AugmentAtLevelReturn ==
    /\ pc = "augment_inner"
    /\ chain' = CheckTransversalAugmentationAtLevel(chain, current_pos, calls[1].p)
    /\ current_pos' = calls[1].previous_pos
    /\ calls' = <<[calls[1] EXCEPT !.at = "return"]>>
    /\ pc' = "augmented"
    /\ UNCHANGED <<group, gen_idx, selector, hashOrder, n, base, up_to_date,
                   constants, snap, subproducts, cand_idx, g_word, all_discarded, b_star,
                   stack, old_chain, new_base, debug_assertions, rand_perm, initial_runs,
                   returned, cubeVars, draws>>

NextAugment ==
    \/ \E level \in 0 .. (Len(chain) - 1) : \E p \in Perms : AugmentAtLevelCall(level, p)
    \/ AugmentAtLevelReturn

SpecAugment == InitAugment /\ [][NextAugment]_vars

\* The orbit of the points X under the permutations S.
RECURSIVE OrbitClosure(_, _)
OrbitClosure(X, S) ==
    LET Y == X \cup {Apply(g, x) : g \in S, x \in X}
    IN  IF Y = X THEN X ELSE OrbitClosure(Y, S)

\* C26: after check_transversal_augmentation_at_level(level, p) the keys of
\* the transversal of the record at level are the orbit of its base point
\* under the old generators and p, every entry that was there is unchanged,
\* p is put in front of the generators only if it was none of them, no
\* other record has changed and current_pos is what it was before the call.
AugmentationAtLevel ==
    pc = "augmented" =>
        LET level == calls[1].level
            p == calls[1].p
            old == snap[level + 1]
            new == chain[level + 1]
        IN  /\ DOMAIN new.transversal = OrbitClosure({old.base}, SeqSet(old.gens) \cup {p})
            /\ \A x \in DOMAIN old.transversal : new.transversal[x] = old.transversal[x]
            /\ new.gens = IF p \in SeqSet(old.gens) THEN old.gens ELSE <<p>> \o old.gens
            /\ new.base = old.base
            /\ Len(chain) = Len(snap)
            /\ \A i \in 1 .. Len(chain) : i # level + 1 => chain[i] = snap[i]
            /\ current_pos = calls[1].previous_pos

\* C26 witness: the top record of a chain of two records was augmented
\* while current_pos was 1, with a new generator, and its orbit gained a
\* point that is no image under p of a point of the old orbit.
AugmentationAtLevelWitness ==
    /\ pc = "augmented"
    /\ Len(chain) = 2
    /\ current_pos = 1
    /\ calls[1].level = 0
    /\ chain[1].gens = <<calls[1].p>> \o snap[1].gens
    /\ \E x \in DOMAIN chain[1].transversal :
          /\ x \notin DOMAIN snap[1].transversal
          /\ x \notin {Apply(calls[1].p, y) : y \in DOMAIN snap[1].transversal}

\* In the randomized builder every transversal is the whole orbit of its
\* base point under the generators of its record, as in AugmentChains.
RecordOrbitsComplete ==
    \A i \in 1 .. Len(chain) :
        DOMAIN chain[i].transversal = OrbitClosure({chain[i].base}, SeqSet(chain[i].gens))

(***************************************************************************)
(* Termination of the randomized builder without a known order.  The      *)
(* builder is one sequential computation, so a step that can be taken is   *)
(* taken: weak fairness of the next-state relation.                        *)
(***************************************************************************)

\* The runs that are followed to their end: no known order, the selector
\* lmp and ascending iteration, every group of RandomGenLists and either
\* choice of the orbit bound.
InitRandomNoOrder ==
    InitRandom /\ ~constants.order.some /\ selector = "lmp" /\ hashOrder = "asc"

SpecRandomFair == InitRandomNoOrder /\ [][NextRandom]_vars /\ WF_vars(NextRandom)

\* A candidate of sgc that is kept and a product of sgt that fails make the
\* order of the chain strictly larger.
OrderGrows ==
    /\ (pc = "sgc_loop" /\ chain' # chain) => Order(chain') > Order(chain)
    /\ (pc = "sgt_loop" /\ pc' = "sgc") => Order(chain') > Order(chain)

\* sgt calls sgc after a failed product only.
SgtCallsSgcOnFailureOnly ==
    (pc \in {"sgt", "sgt_loop", "sgt_check", "sgt_exit"} /\ pc' = "sgc") =>
        /\ pc = "sgt_loop"
        /\ chain' # chain

\* OrderGrows in every step of the randomized builder, the symmetric group
\* and the runs with a known order included.
RandomOrderGrows == [][OrderGrows]_vars

\* C27: without a known order the randomized builder returns, whatever the
\* input and the random choices: every kept candidate of sgc and every
\* failed product of sgt makes the order of the chain strictly larger, the
\* order never exceeds the order of the group, and sgt calls sgc again only
\* after a failed product.
RandomBuilderTerminates ==
    /\ <>(pc = "returned")
    /\ [][OrderGrows /\ SgtCallsSgcOnFailureOnly]_vars
    /\ [](Order(chain) <= Cardinality(G))

\* C27 witness: the builder has returned without a known order with a
\* chain of two records or more that has the order of the group.
RandomBuilderTerminatesWitness ==
    /\ pc = "returned"
    /\ ~constants.order.some
    /\ Len(chain) >= 2
    /\ Order(chain) > Cardinality(DOMAIN chain[1].transversal)
    /\ Order(chain) = Cardinality(G)

(***************************************************************************)
(* The base list of the randomized builder.                                *)
(***************************************************************************)

\* C28: in every state of the randomized builder the base list is as long
\* as the chain, its entry i is the base point of record i, the base points
\* are pairwise distinct (so the debug_assert! on a new base point holds),
\* and current_pos is an index of the chain whenever sgc runs.
RandomBaseAligned ==
    /\ Len(base) = Len(chain)
    /\ \A i \in 1 .. Len(chain) : base[i] = chain[i].base
    /\ \A i, j \in 1 .. Len(base) : i # j => base[i] # base[j]
    /\ pc \in {"sgc", "sgc_loop"} => current_pos \in 0 .. (Len(chain) - 1)

\* C28 witness: sgc runs on the third record of a chain, pushed after the
\* first two, one level below the record it was called on before.
RandomBaseAlignedWitness ==
    /\ pc = "sgc_loop"
    /\ Len(chain) = 3
    /\ current_pos = 2
    /\ cand_idx >= 1
    /\ RandomBaseAligned

(***************************************************************************)
(* The depths of the cube.                                                 *)
(***************************************************************************)

\* The cube after the first i permutations of the sequence (all of it once
\* the early exit was taken).
CubeAfter(i) == CubeNew(cube_base, SubSeq(group, 1, i), orbit_size)

\* C29: in what Cube::new builds the base has depth 0, every point reached
\* has depth at most i after i permutations of the sequence, the stored
\* entry of a point other than the base takes it to a point whose depth is
\* exactly one less, and the final cube set, the keys of orbit and the keys
\* of depth are the same set.
CubeDepths ==
    pc = "cube_made" =>
        /\ cube_base \in DOMAIN cube.depth
        /\ cube.depth[cube_base] = 0
        /\ cube = CubeAfter(Len(group))
        /\ \A i \in 0 .. Len(group) :
              \A x \in DOMAIN CubeAfter(i).depth : CubeAfter(i).depth[x] <= i
        /\ \A x \in (DOMAIN cube.orbit) \ {cube_base} :
              LET y == Apply(cube.orbit[x], x)
              IN  /\ y \in DOMAIN cube.depth
                  /\ cube.depth[y] = cube.depth[x] - 1
        /\ cube.cube = DOMAIN cube.orbit
        /\ DOMAIN cube.orbit = DOMAIN cube.depth

\* C29 witness: a cube of three permutations that reaches every point, one
\* of them at depth 3 and one at depth 1, with no early exit.
CubeDepthsWitness ==
    /\ pc = "cube_made"
    /\ Len(group) = 3
    /\ orbit_size = None
    /\ cube.cube = Points
    /\ \E x, y \in DOMAIN cube.depth : cube.depth[x] = 3 /\ cube.depth[y] = 1
    /\ CubeDepths

(***************************************************************************)
(* BasedPermutation: a StandardPermutation perm acting on the points from  *)
(* base on, the points below base being fixed.  A StandardPermutation is   *)
(* kept as its images on the points 0 .. NBasedPoints-1 (the points beyond *)
(* are fixed), so two of them are equal exactly when they are the same     *)
(* bijection.  The values live in one frame of calls: self and other.      *)
(***************************************************************************)
\* Number of points the permutations of this section move.
NBasedPoints == 5

\* Largest exponent handed to pow (and the smallest, negated).
MaxPow == 3

\* Largest k handed to shift.
MaxShift == 2

BasedPoints == 0 .. (NBasedPoints - 1)

\* Every point a value of this section can move, and some beyond.
AllBasedPoints == 0 .. (2 * NBasedPoints)

StdPerms == {f \in [BasedPoints -> BasedPoints] : \A x, y \in BasedPoints : f[x] = f[y] => x = y}

StdId == [x \in BasedPoints |-> x]

StdIsId(s) == s = StdId

StdApply(s, x) == IF x \in BasedPoints THEN s[x] ELSE x

StdInv(s) == [y \in BasedPoints |-> CHOOSE x \in BasedPoints : s[x] = y]

\* multiply: self first, then other.
StdMultiply(s, t) == [x \in BasedPoints |-> t[s[x]]]

\* shift(k): the point x + k goes where x went, plus k.
StdShift(s, k) == [x \in BasedPoints |-> IF x < k THEN x ELSE s[x - k] + k]

RECURSIVE StdPowNat(_, _)
StdPowNat(s, k) == IF k = 0 THEN StdId ELSE StdMultiply(StdPowNat(s, k - 1), s)

StdPow(s, k) == IF k >= 0 THEN StdPowNat(s, k) ELSE StdPowNat(StdInv(s), 0 - k)

StdLmp(s) == SetMax({x \in BasedPoints : s[x] # x})

\* StandardPermutation::from_vec_unchecked of the vector values, given as
\* a function on 0 .. len-1.
StdFromVec(values, len) == [x \in BasedPoints |-> IF x < len THEN values[x] ELSE x]

\* BasedPermutation::id
BasedId == [base |-> 0, perm |-> StdId]

\* The number of leading fixed points of vals, at most len.
RECURSIVE LeadingFixed(_, _, _)
LeadingFixed(vals, len, b) ==
    IF b < len /\ vals[b] = b THEN LeadingFixed(vals, len, b + 1) ELSE b

\* BasedPermutation::from_vec_unchecked
FromVecUnchecked(vals, len) ==
    LET b == LeadingFixed(vals, len, 0)
        values == [i \in 0 .. (len - b - 1) |-> vals[i + b] - b]
        perm == StdFromVec(values, len - b)
    IN  IF StdIsId(perm) THEN BasedId ELSE [base |-> b, perm |-> perm]

\* from_images (the images are valid: a bijection of 0 .. len-1).
FromImages(images, len) == FromVecUnchecked(images, len)

BasedIsId(a) == StdIsId(a.perm)

BasedShift(a, k) == IF BasedIsId(a) THEN a ELSE [base |-> a.base + k, perm |-> a.perm]

BasedApply(a, x) == IF x < a.base THEN x ELSE StdApply(a.perm, x - a.base) + a.base

BasedInv(a) == [perm |-> StdInv(a.perm), base |-> a.base]

BasedMultiply(a, b) ==
    LET result ==
            IF BasedIsId(a) THEN b
            ELSE IF BasedIsId(b) THEN a
            ELSE IF a.base = b.base
                 THEN [perm |-> StdMultiply(a.perm, b.perm), base |-> a.base]
            ELSE IF a.base < b.base
                 THEN [base |-> a.base,
                       perm |-> StdMultiply(a.perm, StdShift(b.perm, b.base - a.base))]
            ELSE [base |-> b.base,
                  perm |-> StdMultiply(StdShift(a.perm, a.base - b.base), b.perm)]
        new_based == FromImages(result.perm, NBasedPoints)
    IN  IF StdIsId(result.perm) THEN BasedId
        ELSE [base |-> result.base + new_based.base, perm |-> new_based.perm]

\* BasedPermutation::pow counting the fixed points again, as multiply does.
BasedPowNormalised(a, k) ==
    LET perm == StdPow(a.perm, k)
        new_based == FromImages(perm, NBasedPoints)
    IN  IF StdIsId(perm) THEN BasedId
        ELSE [base |-> a.base + new_based.base, perm |-> new_based.perm]

BasedPow(a, k) ==
    LET perm == StdPow(a.perm, k)
    IN  IF StdIsId(perm) THEN BasedId ELSE [perm |-> perm, base |-> a.base]

BasedDivide(a, b) == BasedMultiply(a, BasedInv(b))

BasedLmp(a) == StdLmp(a.perm) + a.base

\* impl PartialEq for BasedPermutation
BasedEq(a, b) == a.base = b.base /\ a.perm = b.perm

\* The frame holding the two values; after a call of pow it also holds the
\* call: its receiver p, its exponent k and its result.
BasedFrame(a, b) ==
    [at |-> "based", self |-> a, other |-> b, p |-> BasedId, k |-> 0, result |-> BasedId]

InitBased ==
    /\ \E images \in StdPerms : calls = <<BasedFrame(FromImages(images, NBasedPoints), BasedId)>>
    /\ pc = "based"
    /\ group = <<>>
    /\ gen_idx = 0
    /\ chain = <<>>
    /\ current_pos = 0
    /\ selector = "lmp"
    /\ hashOrder = "asc"
    /\ n = 0
    /\ base = <<>>
    /\ up_to_date = 1
    /\ constants = [order |-> None]
    /\ snap = <<>>
    /\ subproducts = <<>>
    /\ cand_idx = 0
    /\ g_word = <<>>
    /\ all_discarded = TRUE
    /\ b_star = 0
    /\ stack = <<>>
    /\ old_chain = <<>>
    /\ new_base = <<>>
    /\ debug_assertions = TRUE
    /\ rand_perm = [size |-> 0, gen_elements |-> <<>>, accum |-> Id]
    /\ initial_runs = 0
    /\ returned = None
    /\ CubeIdle
    /\ draws = {}

basedIdle == <<group, gen_idx, chain, current_pos, selector, hashOrder, pc,
               n, base, up_to_date, constants, snap, subproducts, cand_idx, g_word,
               all_discarded, b_star, stack,
               old_chain, new_base, debug_assertions, rand_perm, initial_runs, returned,
               cubeVars, draws>>

\* The result r of a call on self is kept as self or as other.
BasedKeep(r) ==
    /\ \/ calls' = <<BasedFrame(r, calls[1].other)>>
       \/ calls' = <<BasedFrame(calls[1].self, r)>>
    /\ UNCHANGED basedIdle

CallClone == pc = "based" /\ BasedKeep(calls[1].self)

CallInv == pc = "based" /\ BasedKeep(BasedInv(calls[1].self))

CallPow ==
    /\ pc = "based"
    /\ \E k \in (0 - MaxPow) .. MaxPow :
          LET r == BasedPow(calls[1].self, k)
              called == [at |-> "pow", p |-> calls[1].self, k |-> k, result |-> r]
          IN  \/ calls' = <<called @@ BasedFrame(r, calls[1].other)>>
              \/ calls' = <<called @@ BasedFrame(calls[1].self, r)>>
    /\ UNCHANGED basedIdle

CallShift ==
    /\ pc = "based"
    /\ \E k \in 1 .. MaxShift :
          /\ IF BasedIsId(calls[1].self) THEN TRUE
             ELSE BasedLmp(calls[1].self) + k < NBasedPoints
          /\ BasedKeep(BasedShift(calls[1].self, k))

CallMultiply == pc = "based" /\ BasedKeep(BasedMultiply(calls[1].self, calls[1].other))

CallDivide == pc = "based" /\ BasedKeep(BasedDivide(calls[1].self, calls[1].other))

NextBased ==
    \/ CallClone
    \/ CallInv
    \/ CallPow
    \/ CallShift
    \/ CallMultiply
    \/ CallDivide

SpecBased == InitBased /\ [][NextBased]_vars

\* The two values have the same image on every point.
SameImages(a, b) == \A x \in AllBasedPoints : BasedApply(a, x) = BasedApply(b, x)

\* The k-fold product of a with itself.
RECURSIVE KFoldProduct(_, _)
KFoldProduct(a, k) == IF k = 0 THEN BasedId ELSE BasedMultiply(KFoldProduct(a, k - 1), a)

\* C30: for values made by from_images, multiply, inv, pow, divide and
\* shift, == holds exactly when the two values have the same image on
\* every point; p.pow(k) == the k-fold product of p, pow(0) is the identity
\* value and pow(-1) == inv.
BasedEqIsPointwise ==
    pc = "based" =>
        LET f == calls[1]
        IN  /\ BasedEq(f.self, f.other) <=> SameImages(f.self, f.other)
            /\ f.at = "pow" =>
                  /\ f.k >= 0 => BasedEq(f.result, KFoldProduct(f.p, f.k))
                  /\ f.k = 0 => BasedEq(f.result, BasedId)
                  /\ f.k = 0 - 1 => BasedEq(f.result, BasedInv(f.p))

\* C30 witness: pow(2) of a value made by from_images has just been kept
\* as self, other is the product of that value with itself, the two have
\* the same image on every point, and == tells them apart.
BasedEqSplitsWitness ==
    /\ pc = "based"
    /\ calls[1].at = "pow"
    /\ calls[1].k = 2
    /\ calls[1].self = calls[1].result
    /\ calls[1].other = BasedMultiply(calls[1].p, calls[1].p)
    /\ SameImages(calls[1].self, calls[1].other)
    /\ ~BasedEq(calls[1].self, calls[1].other)

====
